---- MODULE Spec2Model ----
(***************************************************************************)
(* MaterialSearch: a model of the asset indexing pipeline (filesystem scan, *)
(* change detection, reconcile), of the scan-start handlers of the two API  *)
(* front-ends, and of the similarity search engine (batch match, softmax,   *)
(* segment reconstruction, memoized search functions).                      *)
(***************************************************************************)
EXTENDS Integers, Sequences, FiniteSets, TLC

(***************************************************************************)
(* Bounds of the model.                                                     *)
(***************************************************************************)
\* scan passes that may be launched and not yet finished
MaxPasses == 2
\* modify times a file can take (second precision timestamps 1..MaxMtime)
MaxMtime == 2
\* writes and removals the environment performs on the asset roots
MaxFsEvents == 2
\* Image rows of a store that is searched
MaxImages == 2
\* sampled frames of one video of a store that is searched
MaxFrames == 3
\* length of a list of per-frame match flags
MaxFlags == 10
\* calls of memoized search functions and of clean_cache in a behaviour
MaxCalls == 4
\* the configured capacity of each search cache (environment variable
\* CACHE_SIZE, 64 when it is not set)
CACHE_SIZE == 2
\* sampled frames of the video whose time windows are computed
MaxRangeFrames == 6
\* the largest frame time of that video, in seconds
MaxFrameTime == 7

(***************************************************************************)
(* The asset roots: paths classified by extension (spec 4.1 step 1).        *)
(***************************************************************************)
ImagePaths == {"a.jpg"}
VideoPaths == {"v.mp4"}
Paths == ImagePaths \cup VideoPaths

\* a modify time; 0 stands for "no such file"
Mtimes == 1..MaxMtime
None == "None"

Max(S) == CHOOSE x \in S : \A y \in S : y <= x
Min(S) == CHOOSE x \in S : \A y \in S : x <= y

VARIABLES
  fs,           \* path -> modify time of the file, 0 when it does not exist
  bad,          \* paths whose current file content cannot be decoded / sampled
  fsEvents,     \* number of environment writes so far (bounded by MaxFsEvents)
  images,       \* Image rows: [id, path, modify_time, feature]
  frames,       \* Video rows: [path, modify_time, frame_time, feature]
  is_scanning,  \* Scanner.is_scanning
  passes,       \* slot -> the scan pass (thread / background task) in that slot
  reply,        \* what the last scan-start request observed and answered
  audit,        \* history of the pass in progress: what it has done so far
  last,         \* history: the audit of the most recently finished pass
  call,         \* the last search call: function, arguments, outcome
  scores,       \* get_index_pairs: the per-frame scores it is applied to
  index_pairs,  \* get_index_pairs: its result, <<>> before it is applied
  range_times,  \* get_video_range: the frame times of the video it is applied to
  ranges,       \* get_video_range: the runs it was applied to and their time windows
  cache,        \* memoized function -> its lru_cache, least recently used first
  hist,         \* history: the argument tuples called, per memoized function
  served,       \* the last call of a memoized function and how it was served
  ncalls,       \* number of calls made through the caches (bounded by MaxCalls)
  cleaning,     \* clean_cache in progress: the caches it has cleared so far
  response,     \* the answer to the last match request
  query,        \* a search in progress beside the scanner: its position and outcome
  tick,         \* history: the last check of the auto-scan task, what it saw and did
  inflight      \* a memoized search whose computation is under way, and history of it

scanVars == <<fs, bad, fsEvents, images, frames, is_scanning, passes, reply>>
histVars == <<audit, last>>
searchVars == <<call, query>>
pairVars == <<scores, index_pairs, range_times, ranges>>
cacheVars == <<cache, hist, served, ncalls, cleaning>>
matchVars == <<response>>
tickVars == <<tick>>
flightVars == <<inflight>>
vars == <<scanVars, histVars, searchVars, pairVars, cacheVars, matchVars, tickVars, flightVars>>

(***************************************************************************)
(* Feature vectors.  A vector is represented by its direction: an angle in  *)
(* units of 30 degrees.  The Embedding Service is a fixed function of the   *)
(* content it is given; the content of a file is identified by its path and *)
(* modify time.                                                             *)
(***************************************************************************)
Features == 0..6
PathBase == [p \in Paths |-> IF p \in ImagePaths THEN 0 ELSE 1]

\* sampling interval of video frames, in seconds
FrameInterval == 2

\* embed_image on the decoded file
ImageFeature(p, m) == (PathBase[p] + m) % 7
\* embed_image on each sampled frame of the video, in frame order
VideoFrameFeatures(p, m) ==
  << (PathBase[p] + m) % 7, (PathBase[p] + m + 3) % 7 >>

(***************************************************************************)
(* Asset Store operations (crud.py).                                        *)
(***************************************************************************)
\* session.query(Image).filter_by(path=path).first()
ImagesAt(imgs, path) == {r \in imgs : r.path = path}
FirstImage(imgs, path) ==
  CHOOSE r \in ImagesAt(imgs, path) : \A q \in ImagesAt(imgs, path) : r.id <= q.id

\* the id the store gives a new Image row
NextImageId(imgs) == IF imgs = {} THEN 1 ELSE Max({r.id : r \in imgs}) + 1

\* a comparison that never finds the file unchanged
delete_image_always(imgs, path, cur_mtime) ==
  IF ImagesAt(imgs, path) = {}
  THEN [images |-> imgs, ret |-> FALSE, raised |-> FALSE]
  ELSE [images |-> imgs \ {FirstImage(imgs, path)}, ret |-> FALSE, raised |-> FALSE]

\* a comparison that reports a change but leaves the outdated row in place
delete_image_keep_row(imgs, path, cur_mtime) ==
  IF ImagesAt(imgs, path) = {}
  THEN [images |-> imgs, ret |-> FALSE, raised |-> FALSE]
  ELSE [images |-> imgs, ret |-> FirstImage(imgs, path).modify_time = cur_mtime,
        raised |-> FALSE]

\* delete_image_if_outdated: compares the stored modify time with the file's
\* current one (read again from the filesystem); ret TRUE = not modified
delete_image_if_outdated(imgs, path, cur_mtime) ==
  IF ImagesAt(imgs, path) = {}
  THEN [images |-> imgs, ret |-> FALSE, raised |-> FALSE]
  ELSE IF cur_mtime = 0     \* os.path.getmtime raises: the file is gone
  THEN [images |-> imgs, ret |-> FALSE, raised |-> TRUE]
  ELSE IF FirstImage(imgs, path).modify_time = cur_mtime
  THEN [images |-> imgs, ret |-> TRUE, raised |-> FALSE]
  ELSE [images |-> imgs \ {FirstImage(imgs, path)}, ret |-> FALSE, raised |-> FALSE]

\* session.query(Video).filter_by(path=path).first()
FramesAt(frs, path) == {r \in frs : r.path = path}
FirstVideo(frs, path) ==
  CHOOSE r \in FramesAt(frs, path) : \A q \in FramesAt(frs, path) : r.frame_time <= q.frame_time

\* a comparison that takes every video that has frames for unchanged
delete_video_skip_outdated(frs, path, modify_time) ==
  IF FramesAt(frs, path) = {} THEN [frames |-> frs, ret |-> FALSE]
  ELSE [frames |-> frs, ret |-> TRUE]

\* delete_video_if_outdated: compares with the modify time the caller passes
delete_video_if_outdated(frs, path, modify_time) ==
  IF FramesAt(frs, path) = {} THEN [frames |-> frs, ret |-> FALSE]
  ELSE IF FirstVideo(frs, path).modify_time = modify_time
  THEN [frames |-> frs, ret |-> TRUE]
  ELSE [frames |-> {r \in frs : r.path # path}, ret |-> FALSE]

\* delete_video_by_path
delete_video_by_path(frs, path) == {r \in frs : r.path # path}

\* the store's uniqueness rule on Image.path: a second row for a path is refused
ImagePathFree(imgs, path) == \A r \in imgs : r.path # path

\* add_image: session.add + commit (the commit fails on a duplicate path)
add_image(imgs, image) ==
  IF ImagePathFree(imgs, image.path) THEN imgs \cup {image} ELSE imgs

\* add_video: bulk_save_objects + commit
add_video(frs, video_list) == frs \cup video_list

\* a reconcile that forgets the Video rows
delete_image_record_if_not_exist(imgs, frs, assets) ==
  [images |-> {r \in imgs : r.path \in assets}, frames |-> frs]

\* delete_record_if_not_exist: reconcile against the candidate set
delete_record_if_not_exist(imgs, frs, assets) ==
  [images |-> {r \in imgs : r.path \in assets},
   frames |-> {r \in frs : r.path \in assets}]

(***************************************************************************)
(* The Scanner: one pass per slot.                                          *)
(***************************************************************************)
Slots == 1..MaxPasses
IdlePass == [pc |-> "idle", assets |-> {}, todo |-> {}, cur |-> None, mt |-> 0]

Launched == {s \in Slots : passes[s].pc # "idle"}
Running == {s \in Slots : passes[s].pc \in {"files", "reconcile", "finish"}}

\* threading.Thread(target=scanner.scan).start() / backgroundtasks.add_task
LaunchPass(ps) ==
  LET s == Min({t \in Slots : ps[t].pc = "idle"})
  IN  [ps EXCEPT ![s] = [IdlePass EXCEPT !.pc = "start"]]

NumLaunched(ps) == Cardinality({s \in Slots : ps[s].pc # "idle"})
(***************************************************************************)
(* Scan-start requests.                                                     *)
(***************************************************************************)
Answer(status, ps) ==
  [status |-> status, was_scanning |-> is_scanning,
   launched |-> NumLaunched(ps) - NumLaunched(passes), same |-> ps = passes]
NoReply == [status |-> "none", was_scanning |-> FALSE, launched |-> 0, same |-> TRUE]

\* a handler that starts a pass whatever the flag says
ApiScanFlaskAlways ==
  /\ Launched # Slots
  /\ passes' = LaunchPass(passes)
  /\ reply' = Answer(IF is_scanning THEN "already scanning" ELSE "start scanning", passes')
  /\ UNCHANGED <<fs, bad, fsEvents, images, frames, is_scanning>>

\* main.py api_scan: test the flag, start the scan thread, answer
ApiScanFlask ==
  /\ IF ~is_scanning
     THEN /\ Launched # Slots
          /\ passes' = LaunchPass(passes)
          /\ reply' = Answer("start scanning", passes')
     ELSE /\ passes' = passes
          /\ reply' = Answer("already scanning", passes')
  /\ UNCHANGED <<fs, bad, fsEvents, images, frames, is_scanning>>

\* fastapi_main.py api_scan: test the flag, add the background task, answer
ApiScanFastapi ==
  /\ IF ~is_scanning
     THEN /\ Launched # Slots
          /\ passes' = LaunchPass(passes)
          /\ reply' = Answer("start scanning", passes')
     ELSE /\ passes' = passes
          /\ reply' = Answer("already scanning", passes')
  /\ UNCHANGED <<fs, bad, fsEvents, images, frames, is_scanning>>

(***************************************************************************)
(* Auto-scan: the time window of ScanConfigModel, minutes since midnight.   *)
(***************************************************************************)
\* autoScanStartTime "22:30", autoScanEndTime "8:00"
autoScanStartTime_ == 22 * 60 + 30
autoScanEndTime_ == 8 * 60
TickTimes == {0, 8 * 60, 8 * 60 + 1, 22 * 60 + 29, 22 * 60 + 30}

\* the window test, wrapping past midnight when start > end
InAutoScanWindow(t) ==
  IF autoScanStartTime_ > autoScanEndTime_
  THEN t >= autoScanStartTime_ \/ t <= autoScanEndTime_
  ELSE t >= autoScanStartTime_ /\ t <= autoScanEndTime_

\* one check of the auto-scan task at wall-clock time t
AutoScanTick(t) ==
  /\ IF InAutoScanWindow(t) /\ ~is_scanning
     THEN /\ Launched # Slots
          /\ passes' = LaunchPass(passes)
     ELSE passes' = passes
  /\ tick' = [ticked |-> TRUE, at |-> t, was_scanning |-> is_scanning,
              active |-> Running # {},
              triggered |-> NumLaunched(passes') > NumLaunched(passes)]
  /\ UNCHANGED <<fs, bad, fsEvents, images, frames, is_scanning, reply>>

(***************************************************************************)
(* One scan pass (spec 4.1, steps 1-7) over the store operations of crud.py *)
(***************************************************************************)
Bump(cnt, p, n) == [cnt EXCEPT ![p] = @ + n]

\* steps 1-2: raise the flag, enumerate the roots, fix the candidate set
ScanBegin(s) ==
  /\ passes[s].pc = "start"
  /\ is_scanning' = TRUE
  /\ passes' = [passes EXCEPT ![s].pc = "files",
                                ![s].assets = {p \in Paths : fs[p] > 0},
                                ![s].todo = {p \in Paths : fs[p] > 0}]
  /\ UNCHANGED <<fs, bad, fsEvents, images, frames, reply>>

\* images are processed before videos (steps 3 and 4)
NextCandidates(s) ==
  IF passes[s].todo \cap ImagePaths # {} THEN passes[s].todo \cap ImagePaths
  ELSE passes[s].todo

\* steps 3/4, first half: the modify-time comparison of one candidate
ScanCheck(s, p) ==
  /\ passes[s].pc = "files"
  /\ passes[s].cur = None
  /\ p \in NextCandidates(s)
  /\ IF fs[p] = 0
     THEN \* the file vanished since the enumeration: skipped
          /\ passes' = [passes EXCEPT ![s].todo = @ \ {p}]
          /\ UNCHANGED <<images, frames>>
     ELSE IF p \in ImagePaths
     THEN LET r == delete_image_if_outdated(images, p, fs[p])
          IN  /\ images' = r.images
              /\ frames' = frames
              /\ passes' = IF r.ret
                   THEN [passes EXCEPT ![s].todo = @ \ {p}]
                   ELSE [passes EXCEPT ![s].cur = p, ![s].mt = fs[p]]
     ELSE LET r == delete_video_if_outdated(frames, p, fs[p])
              f == IF r.ret THEN r.frames ELSE delete_video_by_path(r.frames, p)
          IN  /\ frames' = f
              /\ images' = images
              /\ passes' = IF r.ret
                   THEN [passes EXCEPT ![s].todo = @ \ {p}]
                   ELSE [passes EXCEPT ![s].cur = p, ![s].mt = fs[p]]
  /\ UNCHANGED <<fs, bad, fsEvents, is_scanning, reply>>

\* the Video rows of one sampled video
VideoRows(p, m, feats) ==
  {[path |-> p, modify_time |-> m, frame_time |-> (k - 1) * FrameInterval,
    feature |-> feats[k]] : k \in 1..Len(feats)}

\* a pass whose thread dies on the first file that cannot be decoded: the
\* failure propagates out of the pass and the flag is never lowered
ScanEmbedAbort(s) ==
  LET p == passes[s].cur
      m == passes[s].mt
      ok == fs[p] > 0 /\ p \notin bad
  IN
  /\ passes[s].pc = "files"
  /\ p # None
  /\ IF ~ok
     THEN /\ UNCHANGED <<images, frames>>
          /\ passes' = [passes EXCEPT ![s] = IdlePass]
     ELSE IF p \in ImagePaths
     THEN LET image == [id |-> NextImageId(images), path |-> p, modify_time |-> m,
                        feature |-> ImageFeature(p, fs[p])]
          IN  /\ images' = add_image(images, image)
              /\ frames' = frames
              /\ passes' = [passes EXCEPT ![s].cur = None, ![s].todo = @ \ {p}]
     ELSE LET rows == VideoRows(p, m, VideoFrameFeatures(p, fs[p]))
          IN  /\ frames' = add_video(frames, rows)
              /\ images' = images
              /\ passes' = [passes EXCEPT ![s].cur = None, ![s].todo = @ \ {p}]
  /\ UNCHANGED <<fs, bad, fsEvents, is_scanning, reply>>

\* steps 3/4, second half: decode, embed, insert (a file that cannot be
\* decoded or sampled is skipped)
ScanEmbed(s) ==
  LET p == passes[s].cur
      m == passes[s].mt
      ok == fs[p] > 0 /\ p \notin bad
  IN
  /\ passes[s].pc = "files"
  /\ p # None
  /\ IF ~ok
     THEN /\ UNCHANGED <<images, frames>>
          /\ passes' = [passes EXCEPT ![s].cur = None, ![s].todo = @ \ {p}]
     ELSE IF p \in ImagePaths
     THEN LET image == [id |-> NextImageId(images), path |-> p, modify_time |-> m,
                        feature |-> ImageFeature(p, fs[p])]
          IN  /\ images' = add_image(images, image)
              /\ frames' = frames
              /\ passes' = [passes EXCEPT ![s].cur = None, ![s].todo = @ \ {p}]
     ELSE LET rows == VideoRows(p, m, VideoFrameFeatures(p, fs[p]))
          IN  /\ frames' = add_video(frames, rows)
              /\ images' = images
              /\ passes' = [passes EXCEPT ![s].cur = None, ![s].todo = @ \ {p}]
  /\ UNCHANGED <<fs, bad, fsEvents, is_scanning, reply>>

\* step 5: reconcile deletions against the candidate set
ScanReconcile(s) ==
  LET r == delete_record_if_not_exist(images, frames, passes[s].assets)
  IN
  /\ passes[s].pc = "files"
  /\ passes[s].todo = {}
  /\ passes[s].cur = None
  /\ images' = r.images
  /\ frames' = r.frames
  /\ passes' = [passes EXCEPT ![s].pc = "finish"]
  /\ UNCHANGED <<fs, bad, fsEvents, is_scanning, reply>>

\* step 7: the pass completes, the flag is lowered
ScanFinish(s) ==
  /\ passes[s].pc = "finish"
  /\ is_scanning' = FALSE
  /\ passes' = [passes EXCEPT ![s] = IdlePass]
  /\ UNCHANGED <<fs, bad, fsEvents, images, frames, reply>>

(***************************************************************************)
(* The environment: files are written and removed under the asset roots.    *)
(***************************************************************************)
FsWrite(p, t, ok) ==
  /\ fsEvents < MaxFsEvents
  /\ t # fs[p]
  /\ fs' = [fs EXCEPT ![p] = t]
  /\ bad' = IF ok THEN bad \ {p} ELSE bad \cup {p}
  /\ fsEvents' = fsEvents + 1
  /\ UNCHANGED <<images, frames, is_scanning, passes, reply>>

FsRemove(p) ==
  /\ fsEvents < MaxFsEvents
  /\ fs[p] > 0
  /\ fs' = [fs EXCEPT ![p] = 0]
  /\ bad' = bad \ {p}
  /\ fsEvents' = fsEvents + 1
  /\ UNCHANGED <<images, frames, is_scanning, passes, reply>>

(***************************************************************************)
(* The specification of the scanner under concurrent start requests.        *)
(***************************************************************************)
ZeroCount == [p \in Paths |-> 0]

\* no search has been made and get_index_pairs has not been applied
NoCall == [fn |-> "none", args |-> <<>>, raised |-> FALSE, list |-> <<>>]
MemoFns == {"search_image_by_text", "search_image_by_image", "search_image_file",
            "search_video_by_text", "search_video_by_image", "search_video_file"}
\* no match request has been answered
NoResponse == [frontend |-> "none", search_type |-> 0, status |-> 0, same |-> TRUE,
               unknown |-> [f \in {"flask", "fastapi"} |-> 0]]
\* clean_cache is not running / has cleared none of the caches yet
NotCleaning == [on |-> FALSE, cleared |-> {}]
\* no memoized search is being computed
NoFlight == [pc |-> "none", fn |-> "none", args |-> <<>>, raised |-> FALSE, list |-> <<>>,
             cleaned |-> FALSE, stale |-> {}, served_stale |-> FALSE]
NoTick == [ticked |-> FALSE, at |-> 0, was_scanning |-> FALSE, active |-> FALSE,
           triggered |-> FALSE]
NoQuery == [pc |-> "none", fn |-> "none", feature |-> <<>>, threshold |-> 0,
            todo |-> <<>>, data_list |-> <<>>, emptied |-> FALSE,
            raised |-> FALSE, list |-> <<>>]
NoHist == [used |-> [fn \in MemoFns |-> <<>>],
           called |-> [fn \in MemoFns |-> {}],
           ever |-> [fn \in MemoFns |-> {}]]
NoServed == [fn |-> "none", args |-> <<>>, raised |-> FALSE, list |-> <<>>,
             hit |-> FALSE, embeds |-> 0, prev |-> NoHist, cleared |-> {}]
CachesEmpty ==
  /\ cache = [fn \in MemoFns |-> <<>>]
  /\ hist = NoHist
  /\ served = NoServed
  /\ ncalls = 0
  /\ cleaning = NotCleaning
  /\ response = NoResponse
NoSearchYet ==
  /\ call = NoCall
  /\ tick = NoTick
  /\ inflight = NoFlight
  /\ query = NoQuery
  /\ scores = <<>>
  /\ index_pairs = <<>>
  /\ range_times = <<>>
  /\ ranges = <<>>
  /\ CachesEmpty
NoAudit == [done |-> FALSE, clean |-> FALSE, settled |-> FALSE, assets |-> {},
            emb |-> ZeroCount, del |-> ZeroCount, ins |-> ZeroCount, rec |-> {},
            pre |-> [images |-> {}, frames |-> {}]]

\* the store a complete pass leaves for the files f (none of them bad)
StoreOf(f) ==
  [images |-> {[id |-> 1, path |-> p, modify_time |-> f[p], feature |-> ImageFeature(p, f[p])] :
                 p \in {q \in ImagePaths : f[q] > 0}},
   frames |-> UNION {VideoRows(p, f[p], VideoFrameFeatures(p, f[p])) :
                 p \in {q \in VideoPaths : f[q] > 0}}]

\* the service after earlier passes over an earlier state of the roots
ScanInit ==
  /\ fs \in [Paths -> {0} \cup Mtimes]
  /\ bad = {}
  /\ fsEvents = 0
  /\ \E f0 \in [Paths -> {0, 1}] :
       /\ images = StoreOf(f0).images
       /\ frames = StoreOf(f0).frames
  /\ is_scanning = FALSE
  /\ passes = [s \in Slots |-> IdlePass]
  /\ reply = NoReply
  /\ audit = NoAudit
  /\ last = NoAudit
  /\ NoSearchYet

Init == ScanInit

Next ==
  \/ ApiScanFlask /\ UNCHANGED <<histVars, searchVars, pairVars, matchVars, tickVars, flightVars, cacheVars>>
  \/ ApiScanFastapi /\ UNCHANGED <<histVars, searchVars, pairVars, matchVars, tickVars, flightVars, cacheVars>>
  \/ \E t \in TickTimes : AutoScanTick(t) /\ UNCHANGED <<histVars, searchVars, pairVars, matchVars, flightVars, cacheVars>>
  \/ \E s \in Slots : ScanBegin(s) /\ UNCHANGED <<histVars, searchVars, pairVars, matchVars, tickVars, flightVars, cacheVars>>
  \/ \E s \in Slots, p \in Paths : ScanCheck(s, p) /\ UNCHANGED <<histVars, searchVars, pairVars, matchVars, tickVars, flightVars, cacheVars>>
  \/ \E s \in Slots : ScanEmbed(s) /\ UNCHANGED <<histVars, searchVars, pairVars, matchVars, tickVars, flightVars, cacheVars>>
  \/ \E s \in Slots : ScanReconcile(s) /\ UNCHANGED <<histVars, searchVars, pairVars, matchVars, tickVars, flightVars, cacheVars>>
  \/ \E s \in Slots : ScanFinish(s) /\ UNCHANGED <<histVars, searchVars, pairVars, matchVars, tickVars, flightVars, cacheVars>>

Spec == Init /\ [][Next]_vars

(***************************************************************************)
(* The scanner used sequentially: a pass is requested only when none is     *)
(* launched, while the environment writes and removes files.  The audit     *)
(* records what the pass does: embedding calls, rows deleted and inserted   *)
(* per path, the paths reconcile removed, the store the pass started from,  *)
(* and whether the filesystem stayed as it was since the pass began.        *)
(***************************************************************************)
RowsAt(imgs, frs, p) ==
  Cardinality({r \in imgs : r.path = p}) + Cardinality({r \in frs : r.path = p})

\* rows of path p that the step removed / added
Removed(p) == Cardinality({r \in images \ images' : r.path = p})
              + Cardinality({r \in frames \ frames' : r.path = p})
Added(p) == Cardinality({r \in images' \ images : r.path = p})
            + Cardinality({r \in frames' \ frames : r.path = p})

SeqInit ==
  /\ fs \in [Paths -> {0, 1}]
  /\ bad = {}
  /\ fsEvents = 0
  /\ images = {}
  /\ frames = {}
  /\ is_scanning = FALSE
  /\ passes = [s \in Slots |-> IdlePass]
  /\ reply = NoReply
  /\ audit = NoAudit
  /\ last = NoAudit
  /\ NoSearchYet

SeqBegin ==
  /\ ScanBegin(1)
  /\ audit' = [NoAudit EXCEPT !.clean = TRUE, !.assets = passes'[1].assets,
                              !.pre = [images |-> images, frames |-> frames]]
  /\ last' = last

SeqCheck(p) ==
  /\ ScanCheck(1, p)
  /\ audit' = [audit EXCEPT !.del = Bump(@, p, Removed(p))]
  /\ last' = last

SeqEmbed ==
  /\ ScanEmbed(1)
  /\ LET p == passes[1].cur
     IN  audit' = [audit EXCEPT
           !.emb = Bump(@, p, IF fs[p] > 0 /\ p \notin bad THEN 1 ELSE 0),
           !.ins = Bump(@, p, Added(p))]
  /\ last' = last

SeqReconcile ==
  /\ ScanReconcile(1)
  /\ audit' = [audit EXCEPT !.rec = {p \in Paths : Removed(p) > 0},
                            !.del = [p \in Paths |-> audit.del[p] + Removed(p)]]
  /\ last' = last

SeqFinish ==
  /\ ScanFinish(1)
  /\ last' = [audit EXCEPT !.done = TRUE, !.settled = last.done /\ last.clean]
  /\ audit' = NoAudit

SeqWrite(p, t, ok) ==
  /\ FsWrite(p, t, ok)
  /\ audit' = [audit EXCEPT !.clean = FALSE]
  /\ last' = [last EXCEPT !.clean = FALSE]

SeqRemove(p) ==
  /\ FsRemove(p)
  /\ audit' = [audit EXCEPT !.clean = FALSE]
  /\ last' = [last EXCEPT !.clean = FALSE]

SeqNext ==
  \/ Launched = {} /\ ApiScanFlask /\ UNCHANGED <<histVars, searchVars, pairVars, matchVars, tickVars, flightVars, cacheVars>>
  \/ SeqBegin /\ UNCHANGED <<searchVars, pairVars, matchVars, tickVars, flightVars, cacheVars>>
  \/ \E p \in Paths : SeqCheck(p) /\ UNCHANGED <<searchVars, pairVars, matchVars, tickVars, flightVars, cacheVars>>
  \/ SeqEmbed /\ UNCHANGED <<searchVars, pairVars, matchVars, tickVars, flightVars, cacheVars>>
  \/ SeqReconcile /\ UNCHANGED <<searchVars, pairVars, matchVars, tickVars, flightVars, cacheVars>>
  \/ SeqFinish /\ UNCHANGED <<searchVars, pairVars, matchVars, tickVars, flightVars, cacheVars>>
  \/ \E p \in Paths, t \in Mtimes, ok \in BOOLEAN :
       SeqWrite(p, t, ok) /\ UNCHANGED <<searchVars, pairVars, matchVars, tickVars, flightVars, cacheVars>>
  \/ \E p \in Paths : SeqRemove(p) /\ UNCHANGED <<searchVars, pairVars, matchVars, tickVars, flightVars, cacheVars>>

SpecSeq == SeqInit /\ [][SeqNext]_vars
(***************************************************************************)
(* Claims about the scanner.                                                *)
(***************************************************************************)
\* C1: at most one scan pass is running at any time, under every
\* interleaving of the scan-start requests of both front-ends and of the
\* auto-scan task.
C1_AtMostOnePassRunning == Cardinality(Running) <= 1

\* C2: a start request made while is_scanning is true answers "already
\* scanning", launches and queues nothing and leaves the scan state as it
\* was; a request made while it is false answers "start scanning" and
\* launches exactly one pass; no other answer exists.
C2_StartAnswer ==
  /\ reply.status \in {"none", "start scanning", "already scanning"}
  /\ reply.status = "already scanning" =>
       reply.was_scanning /\ reply.launched = 0 /\ reply.same
  /\ reply.status = "start scanning" =>
       ~reply.was_scanning /\ reply.launched = 1
C2_Witness ==
  /\ reply.status = "already scanning"
  /\ is_scanning
  /\ Cardinality(Launched) = 1

PassQuiet == passes[1].pc \in {"idle", "start"}

\* C3: a pass that follows a completed pass, with no filesystem change since
\* that earlier pass began, makes no embedding call, deletes no row, inserts
\* no row, and leaves the store exactly as it found it.
C3_Idempotent ==
  (last.done /\ last.settled /\ last.clean) =>
    /\ \A p \in Paths : last.emb[p] = 0 /\ last.del[p] = 0 /\ last.ins[p] = 0
    /\ PassQuiet => (images = last.pre.images /\ frames = last.pre.frames)
C3_Witness ==
  /\ last.done /\ last.settled /\ last.clean /\ PassQuiet
  /\ images # {} /\ frames # {}
  /\ \E p \in Paths : fs[p] > 0 /\ p \in bad

\* the Image row the last finished pass found for path p when it began
PreImage(p) == FirstImage(last.pre.images, p)
\* the case of C4: the last finished pass found a row for p, the file existed
\* with one modify time throughout the pass and has not changed since
C4_Case(p) ==
  /\ last.done /\ last.clean /\ PassQuiet
  /\ ImagesAt(last.pre.images, p) # {}
  /\ fs[p] > 0
C4_Reembedded(p) ==
  /\ Cardinality(ImagesAt(images, p)) = 1
  /\ FirstImage(images, p).modify_time = fs[p]
  /\ FirstImage(images, p).feature = ImageFeature(p, fs[p])
  /\ last.emb[p] = 1
C4_Untouched(p) ==
  /\ ImagesAt(images, p) = ImagesAt(last.pre.images, p)
  /\ last.emb[p] = 0

\* C4 as stated: a changed modify time always ends in exactly one re-embedded
\* row; an unchanged one leaves the row untouched.
C4_AsStated ==
  \A p \in ImagePaths : C4_Case(p) =>
    IF PreImage(p).modify_time # fs[p] THEN C4_Reembedded(p) ELSE C4_Untouched(p)

\* C4 amended: a changed modify time ends in exactly one row with the new
\* modify time and a fresh embedding, invoked once, when the file can be
\* decoded and passes the size filters; when it cannot, the old row is deleted,
\* the embedding is not invoked and no row for the path remains; an unchanged
\* modify time leaves the row untouched with no embedding call.
C4_ChangeDetection ==
  \A p \in ImagePaths : C4_Case(p) =>
    IF PreImage(p).modify_time = fs[p] THEN C4_Untouched(p)
    ELSE IF p \notin bad THEN C4_Reembedded(p)
    ELSE ImagesAt(images, p) = {} /\ last.emb[p] = 0 /\ last.del[p] = 1
C4_Witness ==
  \E p \in ImagePaths :
    /\ C4_Case(p)
    /\ PreImage(p).modify_time # fs[p]
    /\ p \notin bad
    /\ C4_Reembedded(p)

\* C5: once a pass has completed, no Image or Video row has a path outside
\* that pass's candidate set, and reconcile removed no row of a candidate.
C5_Reconciled ==
  (last.done /\ PassQuiet) =>
    /\ \A r \in images \cup frames : r.path \in last.assets
    /\ last.rec \cap last.assets = {}
C5_Witness ==
  /\ last.done /\ PassQuiet
  /\ last.rec # {}
  /\ last.assets # {}
  /\ images \cup frames # {}

(***************************************************************************)
(* The search engine.  An optional value (Python None or a value) is a      *)
(* sequence of length at most one.                                          *)
(***************************************************************************)
Absent == <<>>
Some(v) == <<v>>
Abs(x) == IF x < 0 THEN -x ELSE x

\* cosine similarity times 100 of two unit vectors, by the angle between them
CosTable == <<100, 87, 50, 0, -50, -87, -100>>
Cosine100(a, b) == CosTable[Abs(a - b) + 1]

\* the Embedding Service on text: total, an empty prompt has an encoding too
Prompts == {"", "cat", "dog"}
EmbedText == [q \in Prompts |-> IF q = "cat" THEN 0 ELSE IF q = "dog" THEN 6 ELSE 3]

\* the text front of the Embedding Service: no prompt, no feature
process_text(input_text) ==
  IF input_text = "" THEN Absent ELSE Some(EmbedText[input_text])

\* Python truth value of a score: None and 0 are false
Truthy(x) == x # Absent /\ x[1] # 0

match_batch_all(positive_feature, negative_feature, features, positive_threshold, negative_threshold) ==
  [i \in 1..Len(features) |-> Some(Cosine100(positive_feature[1], features[i]))]

\* the batch scorer: the kept candidates carry pos_score, the dropped ones
\* carry no score
match_batch(positive_feature, negative_feature, features, positive_threshold, negative_threshold) ==
  [i \in 1..Len(features) |->
     LET pos_score == Cosine100(positive_feature[1], features[i])
     IN  IF /\ pos_score >= positive_threshold
            /\ \/ negative_feature = Absent
               \/ Cosine100(negative_feature[1], features[i]) <= negative_threshold
         THEN Some(pos_score) ELSE Absent]

RECURSIVE SumSeq(_)
SumSeq(x) == IF x = <<>> THEN 0 ELSE x[1] + SumSeq(Tail(x))

\* np.exp on a score: the exponential to the base 2^(1/10), the exponent
\* rounded down, scaled by 2^10 (the scale cancels in the quotient)
Exp(x) == 2 ^ ((x + 100) \div 10)

softmax_by_max(x) ==
  LET exp_scores == [i \in 1..Len(x) |-> Exp(x[i])]
  IN  [i \in 1..Len(x) |-> <<exp_scores[i], Max({exp_scores[k] : k \in 1..Len(x)})>>]

\* a softmax score is the exact quotient <<numerator, denominator>>
softmax(x) ==
  LET exp_scores == [i \in 1..Len(x) |-> Exp(x[i])]
  IN  [i \in 1..Len(x) |-> <<exp_scores[i], SumSeq(exp_scores)>>]

\* the list left in the order it was built
InsertLast(sorted, item) == Append(sorted, item)

\* sorted(list, key=score, reverse=True): stable, highest score first
InsertDesc(sorted, item) ==
  LET before == {k \in 1..Len(sorted) : sorted[k].score < item.score}
  IN  IF before = {} THEN Append(sorted, item)
      ELSE SubSeq(sorted, 1, Min(before) - 1) \o <<item>>
           \o SubSeq(sorted, Min(before), Len(sorted))
RECURSIVE SortDesc(_)
SortDesc(list) ==
  IF list = <<>> THEN <<>>
  ELSE InsertDesc(SortDesc(SubSeq(list, 1, Len(list) - 1)), list[Len(list)])

\* the Image rows in the order the store returns them
RECURSIVE ImageRows(_)
ImageRows(imgs) ==
  IF imgs = {} THEN <<>>
  ELSE LET r == CHOOSE x \in imgs : \A y \in imgs : x.id <= y.id
       IN  <<r>> \o ImageRows(imgs \ {r})

Returned(list) == [raised |-> FALSE, list |-> list]
Raised == [raised |-> TRUE, list |-> <<>>]

\* np.frombuffer(b"".join(features)).reshape(len(features), -1): with no
\* features the unknown dimension cannot be derived and reshape raises
\* ValueError
ReshapeRaises(features) == Len(features) = 0

\* the indices of the candidates whose score is true, in order
KeptIndices(sc) ==
  SelectSeq([i \in 1..Len(sc) |-> i], LAMBDA i : Truthy(sc[i]))

search_image_by_feature(imgs, positive_feature, negative_feature, positive_threshold, negative_threshold) ==
  LET rows == ImageRows(imgs)
      sc == match_batch(positive_feature, negative_feature,
                        [i \in 1..Len(rows) |-> rows[i].feature],
                        positive_threshold, negative_threshold)
      kept == KeptIndices(sc)
      scores_list == [k \in 1..Len(kept) |-> sc[kept[k]][1]]
      softmax_scores == softmax(scores_list)
  IN  IF ReshapeRaises(rows) THEN Raised
      ELSE IF Len(rows) = 0 THEN Returned(<<>>)
      ELSE IF positive_feature = Absent THEN Raised
      ELSE Returned(SortDesc([k \in 1..Len(kept) |->
             [url |-> <<"api/get_image", rows[kept[k]].id>>,
              path |-> rows[kept[k]].path,
              score |-> scores_list[k],
              softmax_score |-> softmax_scores[k]]]))

search_image_by_text(imgs, positive_prompt, negative_prompt, positive_threshold, negative_threshold) ==
  search_image_by_feature(imgs, process_text(positive_prompt),
                          process_text(negative_prompt),
                          positive_threshold, negative_threshold)

(***************************************************************************)
(* Video search: per-frame match, segment reconstruction, time windows.     *)
(* Frame indices are counted from 0 as in the code.                         *)
(***************************************************************************)
get_index_pairs_single(sc) ==
  [k \in 1..Len(KeptIndices(sc)) |-> <<KeptIndices(sc)[k] - 1, KeptIndices(sc)[k] - 1>>]

\* the second loop of get_index_pairs, from position i of indexes
RECURSIVE IndexPairsLoop(_, _, _, _)
IndexPairsLoop(indexes, i, start_index, result) ==
  IF i = Len(indexes)
  THEN IF start_index # -1
       THEN Append(result, <<start_index, indexes[Len(indexes)]>>)
       ELSE result
  ELSE IF start_index = -1
  THEN IndexPairsLoop(indexes, i + 1, indexes[i + 1], result)
  ELSE IF indexes[i + 1] - indexes[i] > 2
  THEN IndexPairsLoop(indexes, i + 1, indexes[i + 1],
                      Append(result, <<start_index, indexes[i]>>))
  ELSE IndexPairsLoop(indexes, i + 1, start_index, result)

get_index_pairs(sc) ==
  IndexPairsLoop([k \in 1..Len(KeptIndices(sc)) |-> KeptIndices(sc)[k] - 1],
                 0, -1, <<>>)

\* the end of the window rounded down like its start
get_video_range_floor(start_index, end_index, sc, times) ==
  LET start_time ==
        IF start_index > 0
        THEN (times[start_index + 1] + times[start_index]) \div 2
        ELSE times[start_index + 1]
      end_time ==
        IF end_index < Len(sc) - 1
        THEN (times[end_index + 1] + times[end_index + 2]) \div 2
        ELSE times[end_index + 1]
  IN  <<start_time, end_time>>

get_video_range(start_index, end_index, sc, frame_times) ==
  LET start_time ==
        IF start_index > 0
        THEN (frame_times[start_index + 1] + frame_times[start_index]) \div 2
        ELSE frame_times[start_index + 1]
      end_time ==
        IF end_index < Len(sc) - 1
        THEN (frame_times[end_index + 1] + frame_times[end_index + 2] + 1) \div 2
        ELSE frame_times[end_index + 1]
  IN  <<start_time, end_time>>

\* the sampled frames of a video in frame order
RECURSIVE FrameRows(_)
FrameRows(rows) ==
  IF rows = {} THEN <<>>
  ELSE LET r == CHOOSE x \in rows : \A y \in rows : x.frame_time <= y.frame_time
       IN  <<r>> \o FrameRows(rows \ {r})

\* the distinct video paths of the store, in the order the store returns them
StoreVideoOrder == <<"v.mp4", "w.mp4">>
get_video_paths(frs) == SelectSeq(StoreVideoOrder, LAMBDA p : FramesAt(frs, p) # {})

\* max(scores[start_index : end_index + 1]); comparing a missing score with
\* a number raises
SliceHasAbsent(sc, pair) == \E i \in pair[1]..pair[2] : sc[i + 1] = Absent
SliceMax(sc, pair) ==
  Max({sc[i + 1][1] : i \in {j \in pair[1]..pair[2] : sc[j + 1] # Absent}})

\* the runs of one video: (path, score, start_time, end_time)
VideoRuns(frs, path, positive_feature, negative_feature, positive_threshold, negative_threshold) ==
  LET rows == FrameRows(FramesAt(frs, path))
      frame_times == [i \in 1..Len(rows) |-> rows[i].frame_time]
      sc == match_batch(positive_feature, negative_feature,
                        [i \in 1..Len(rows) |-> rows[i].feature],
                        positive_threshold, negative_threshold)
      pairs == get_index_pairs(sc)
  IN  [raised |-> \/ ReshapeRaises(rows)
                   \/ \E k \in 1..Len(pairs) : SliceHasAbsent(sc, pairs[k]),
       list |-> [k \in 1..Len(pairs) |->
                   [path |-> path,
                    score |-> SliceMax(sc, pairs[k]),
                    start_time |-> get_video_range(pairs[k][1], pairs[k][2], sc, frame_times)[1],
                    end_time |-> get_video_range(pairs[k][1], pairs[k][2], sc, frame_times)[2]]]]

RECURSIVE Concat(_)
Concat(ss) == IF ss = <<>> THEN <<>> ELSE ss[1] \o Concat(Tail(ss))

\* the return list of the video search: softmax over all runs of all videos,
\* sorted by descending score
VideoReturnList(data_list) ==
  LET softmax_scores == softmax([k \in 1..Len(data_list) |-> data_list[k].score])
  IN  SortDesc([k \in 1..Len(data_list) |->
             [url |-> <<"api/get_video", data_list[k].path,
                        data_list[k].start_time, data_list[k].end_time>>,
              path |-> data_list[k].path,
              score |-> data_list[k].score,
              start_time |-> data_list[k].start_time,
              end_time |-> data_list[k].end_time,
              softmax_score |-> softmax_scores[k]]])

search_video_by_feature(frs, positive_feature, negative_feature, positive_threshold, negative_threshold) ==
  LET paths == get_video_paths(frs)
      runs == [k \in 1..Len(paths) |->
                 VideoRuns(frs, paths[k], positive_feature, negative_feature,
                           positive_threshold, negative_threshold)]
      data_list == Concat([k \in 1..Len(paths) |-> runs[k].list])
  IN  IF Len(paths) = 0 THEN Returned(<<>>)
      ELSE IF positive_feature = Absent THEN Raised
      ELSE IF \E k \in 1..Len(paths) : runs[k].raised THEN Raised
      ELSE Returned(VideoReturnList(data_list))

search_video_by_text(frs, positive_prompt, negative_prompt, positive_threshold, negative_threshold) ==
  search_video_by_feature(frs, process_text(positive_prompt),
                          process_text(negative_prompt),
                          positive_threshold, negative_threshold)

(***************************************************************************)
(* Search by image.                                                         *)
(***************************************************************************)
\* default negative_threshold of the searches by feature
NEGATIVE_THRESHOLD == 10

\* int(img_id_or_path) on the strings that are decimal numbers; it raises
\* ValueError on the others
IntOf == [x \in {"0", "1", "2"} |-> IF x = "0" THEN 0 ELSE IF x = "1" THEN 1 ELSE 2]

\* the feature of the Image row with that id, if there is one
get_image_features_by_id(imgs, id) ==
  IF {r \in imgs : r.id = id} = {} THEN Absent
  ELSE Some((CHOOSE r \in imgs : r.id = id).feature)

\* when int() raises, img_id is never bound and "if img_id" raises; when
\* img_id is 0, img_path is never bound and "elif img_path" raises
search_image_by_image(imgs, img_id_or_path, threshold) ==
  IF img_id_or_path \notin DOMAIN IntOf THEN Raised
  ELSE IF IntOf[img_id_or_path] = 0 THEN Raised
  ELSE LET features == get_image_features_by_id(imgs, IntOf[img_id_or_path])
       IN  IF features = Absent THEN Returned(<<>>)
           ELSE search_image_by_feature(imgs, features, Absent, threshold,
                                        NEGATIVE_THRESHOLD)

search_video_by_image(imgs, frs, img_id_or_path, threshold) ==
  IF img_id_or_path \notin DOMAIN IntOf THEN Raised
  ELSE IF IntOf[img_id_or_path] = 0 THEN Raised
  ELSE LET feature == get_image_features_by_id(imgs, IntOf[img_id_or_path])
       IN  IF feature = Absent THEN Returned(<<>>)
           ELSE search_video_by_feature(frs, feature, Absent, threshold,
                                        NEGATIVE_THRESHOLD)

(***************************************************************************)
(* The search engine over a store at rest: the store is any small set of    *)
(* Image rows or any small set of frames of two videos; a behaviour makes   *)
(* one call of a search function (the functions do not change the store).   *)
(***************************************************************************)
ImageNames == <<"a.jpg", "b.jpg", "c.jpg", "d.jpg">>
ImageStores ==
  UNION {{{[id |-> i, path |-> ImageNames[i], modify_time |-> 1, feature |-> f[i]] :
             i \in 1..n} : f \in [1..n -> Features]} : n \in 0..MaxImages}

FrameFeatures == {0, 3, 4, 6}
FrameStores ==
  UNION {{VideoRows("v.mp4", 1, f) \cup
            (IF w = Absent THEN {} ELSE VideoRows("w.mp4", 1, w)) :
          f \in [1..n -> FrameFeatures], w \in {Absent} \cup {Some(x) : x \in FrameFeatures}} :
         n \in 0..MaxFrames}

\* one stored image together with one video
MixedStores ==
  {[images |-> {[id |-> 1, path |-> "a.jpg", modify_time |-> 1, feature |-> x]},
    frames |-> VideoRows("v.mp4", 1, f)] :
     x \in {0, 6}, f \in UNION {[1..n -> FrameFeatures] : n \in 1..MaxFrames}}

QueryFeatures == {Absent, Some(0), Some(6)}
\* arguments of a search by image: image ids and paths of image files
ImageArguments == {"0", "1", "2", "a.jpg", "upload.jpg"}
Thresholds == {-50, 0, 50}

ScannerAtRest ==
  /\ fs = [p \in Paths |-> 0]
  /\ bad = {}
  /\ fsEvents = 0
  /\ is_scanning = FALSE
  /\ passes = [s \in Slots |-> IdlePass]
  /\ reply = NoReply
  /\ audit = NoAudit
  /\ last = NoAudit

SearchInit ==
  /\ ScannerAtRest
  /\ \/ images \in ImageStores /\ frames = {}
     \/ images = {} /\ frames \in FrameStores
     \/ \E st \in MixedStores : images = st.images /\ frames = st.frames
  /\ NoSearchYet

\* the record of a call and of its outcome
Outcome(fn, args, out) ==
  [fn |-> fn, args |-> args, raised |-> out.raised, list |-> out.list]

SearchImageByFeature(pf, nf, pt, nt) ==
  /\ call = NoCall
  /\ call' = Outcome("search_image_by_feature", <<pf, nf, pt, nt>>,
                     search_image_by_feature(images, pf, nf, pt, nt))
  /\ UNCHANGED <<scanVars, histVars, pairVars, matchVars, tickVars, flightVars, cacheVars>>
  /\ query' = query

SearchImageByText(pp, np, pt, nt) ==
  /\ call = NoCall
  /\ call' = Outcome("search_image_by_text", <<pp, np, pt, nt>>,
                     search_image_by_text(images, pp, np, pt, nt))
  /\ UNCHANGED <<scanVars, histVars, pairVars, matchVars, tickVars, flightVars, cacheVars>>
  /\ query' = query

SearchVideoByFeature(pf, nf, pt, nt) ==
  /\ call = NoCall
  /\ call' = Outcome("search_video_by_feature", <<pf, nf, pt, nt>>,
                     search_video_by_feature(frames, pf, nf, pt, nt))
  /\ UNCHANGED <<scanVars, histVars, pairVars, matchVars, tickVars, flightVars, cacheVars>>
  /\ query' = query

SearchVideoByText(pp, np, pt, nt) ==
  /\ call = NoCall
  /\ call' = Outcome("search_video_by_text", <<pp, np, pt, nt>>,
                     search_video_by_text(frames, pp, np, pt, nt))
  /\ UNCHANGED <<scanVars, histVars, pairVars, matchVars, tickVars, flightVars, cacheVars>>
  /\ query' = query

SearchImageByImage(x, t) ==
  /\ call = NoCall
  /\ call' = Outcome("search_image_by_image", <<x, t>>,
                     search_image_by_image(images, x, t))
  /\ UNCHANGED <<scanVars, histVars, pairVars, matchVars, tickVars, flightVars, cacheVars>>
  /\ query' = query

SearchVideoByImage(x, t) ==
  /\ call = NoCall
  /\ call' = Outcome("search_video_by_image", <<x, t>>,
                     search_video_by_image(images, frames, x, t))
  /\ UNCHANGED <<scanVars, histVars, pairVars, matchVars, tickVars, flightVars, cacheVars>>
  /\ query' = query

SearchNext ==
  \/ \E x \in ImageArguments, t \in Thresholds : SearchImageByImage(x, t)
  \/ \E x \in ImageArguments, t \in Thresholds : SearchVideoByImage(x, t)
  \/ \E pf \in QueryFeatures, nf \in QueryFeatures, pt \in Thresholds, nt \in Thresholds :
       SearchImageByFeature(pf, nf, pt, nt)
  \/ \E pp \in Prompts, np \in Prompts, pt \in Thresholds, nt \in Thresholds :
       SearchImageByText(pp, np, pt, nt)
  \/ \E pf \in QueryFeatures, nf \in QueryFeatures, pt \in Thresholds, nt \in Thresholds :
       SearchVideoByFeature(pf, nf, pt, nt)
  \/ \E pp \in Prompts, np \in Prompts, pt \in Thresholds, nt \in Thresholds :
       SearchVideoByText(pp, np, pt, nt)

SpecSearch == SearchInit /\ [][SearchNext]_vars

(***************************************************************************)
(* get_index_pairs applied to a list of per-frame match flags.              *)
(***************************************************************************)
RECURSIVE FlagLists(_)
FlagLists(n) ==
  IF n = 0 THEN {<<>>}
  ELSE FlagLists(n - 1) \cup
       {Append(x, Some(b)) : x \in {y \in FlagLists(n - 1) : Len(y) = n - 1}, b \in {0, 1}}

PairsInit ==
  /\ ScannerAtRest
  /\ images = {}
  /\ frames = {}
  /\ call = NoCall
  /\ query = NoQuery
  /\ tick = NoTick
  /\ inflight = NoFlight
  /\ scores \in FlagLists(MaxFlags)
  /\ index_pairs = <<>>
  /\ range_times = <<>>
  /\ ranges = <<>>
  /\ CachesEmpty

GetIndexPairs ==
  /\ index_pairs = <<>>
  /\ index_pairs' = <<get_index_pairs(scores)>>
  /\ UNCHANGED <<scanVars, histVars, searchVars, scores, range_times, ranges, cacheVars, matchVars, tickVars, flightVars>>

PairsNext == GetIndexPairs

SpecPairs == PairsInit /\ [][PairsNext]_vars

(***************************************************************************)
(* Claims about the search engine.                                          *)
(***************************************************************************)
\* the items of the result list that refer to the Image row r
ItemsOf(r) == {k \in 1..Len(call.list) : call.list[k].url = <<"api/get_image", r.id>>}

\* C6: for every stored image, every query and every pair of thresholds
\* (zero and negative thresholds and scores of exactly zero included), the
\* image is in the result list of search_image_by_feature if and only if
\* pos_score >= positive_threshold and (no negative feature is supplied or
\* neg_score <= negative_threshold), and the score reported for it is its
\* pos_score.
C6_BatchMatchThresholding ==
  (call.fn = "search_image_by_feature" /\ call.args[1] # Absent) =>
    \A r \in images :
      LET pos_score == Cosine100(call.args[1][1], r.feature)
          keep == /\ pos_score >= call.args[3]
                  /\ \/ call.args[2] = Absent
                     \/ Cosine100(call.args[2][1], r.feature) <= call.args[4]
      IN  /\ ~call.raised
          /\ (ItemsOf(r) # {}) <=> keep
          /\ \A k \in ItemsOf(r) : call.list[k].score = pos_score

ByFeature == {"search_image_by_feature", "search_video_by_feature"}
\* the softmax scores of the result list sum to 1: they are quotients over
\* one denominator, which their numerators add up to
SoftmaxSumsToOne ==
  /\ \A k \in 1..Len(call.list) :
       call.list[k].softmax_score[2] = call.list[1].softmax_score[2]
  /\ SumSeq([k \in 1..Len(call.list) |-> call.list[k].softmax_score[1]])
       = call.list[1].softmax_score[2]

Matched == {i \in 0..(Len(scores) - 1) : Truthy(scores[i + 1])}
RunsOf(i) == {k \in 1..Len(index_pairs[1]) :
                index_pairs[1][k][1] <= i /\ i <= index_pairs[1][k][2]}
ExampleFlags == <<Some(1), Some(1), Some(0), Some(0), Some(1), Some(1),
                  Some(0), Some(0), Some(0), Some(1)>>

\* C8: for every list of per-frame match flags, two consecutive matched
\* frames are in the same run of get_index_pairs if and only if their
\* indices differ by at most 2; every matched frame lies in exactly one run;
\* every run starts and ends at a matched frame; the flags
\* [1,1,0,0,1,1,0,0,0,1] give the runs (0,1), (4,5), (9,9).
C8_SegmentMerge ==
  index_pairs # <<>> =>
    /\ \A i \in Matched : Cardinality(RunsOf(i)) = 1
    /\ \A k \in 1..Len(index_pairs[1]) :
         index_pairs[1][k][1] \in Matched /\ index_pairs[1][k][2] \in Matched
    /\ \A i, j \in Matched :
         (i < j /\ ~ \E m \in Matched : i < m /\ m < j) =>
           ((RunsOf(i) = RunsOf(j)) <=> (j - i <= 2))
    /\ scores = ExampleFlags => index_pairs[1] = <<<<0, 1>>, <<4, 5>>, <<9, 9>>>>

\* get_index_pairs has been applied to the example: three runs, one of
\* them a single frame
C8_Witness ==
  /\ scores = ExampleFlags
  /\ index_pairs # <<>>
  /\ Len(index_pairs[1]) = 3

\* C10: when the store holds exactly one image, a text search with
\* positive_threshold 0 and no negative prompt returns exactly one result,
\* the result refers to the stored image, its score is the cosine of the
\* text feature and the stored feature times 100, and its softmax_score
\* is 1.  Stated for the stored images that the keep rule keeps at
\* threshold 0 (pos_score >= 0).
C10_EndToEnd ==
  (/\ call.fn = "search_image_by_text"
   /\ call.args[1] # "" /\ call.args[2] = "" /\ call.args[3] = 0
   /\ Cardinality(images) = 1) =>
    \A r \in images :
      Cosine100(EmbedText[call.args[1]], r.feature) >= 0 =>
        /\ ~call.raised
        /\ Len(call.list) = 1
        /\ call.list[1].url = <<"api/get_image", r.id>>
        /\ call.list[1].path = r.path
        /\ call.list[1].score = Cosine100(EmbedText[call.args[1]], r.feature)
        /\ call.list[1].softmax_score[1] = call.list[1].softmax_score[2]

(***************************************************************************)
(* The memoized search functions and their caches.                          *)
(***************************************************************************)
\* the stored paths that contain the query string
PathQueries == {"a", "mp4"}
PathsContaining == [q \in PathQueries |->
                      IF q = "a" THEN {"a.jpg"} ELSE {"v.mp4", "w.mp4"}]

search_image_file(imgs, path) ==
  LET id_paths == SelectSeq(ImageRows(imgs), LAMBDA r : r.path \in PathsContaining[path])
  IN  Returned([i \in 1..Len(id_paths) |->
                  [url |-> <<"api/get_image", id_paths[i].id>>, path |-> id_paths[i].path]])

search_video_file(frs, path) ==
  LET paths == SelectSeq(get_video_paths(frs), LAMBDA q : q \in PathsContaining[path])
  IN  Returned([i \in 1..Len(paths) |->
                  [url |-> <<"api/get_video", paths[i]>>, path |-> paths[i]]])

\* invocations of the Embedding Service by one computation of a text search
TextEmbeds(args) ==
  (IF args[1] = "" THEN 0 ELSE 1) + (IF args[2] = "" THEN 0 ELSE 1)

clean_cache_text(c) ==
  [fn \in MemoFns |->
     IF fn \in {"search_image_by_text", "search_video_by_text"} THEN <<>> ELSE c[fn]]

\* cache_clear of each of the six memoized functions
clean_cache(c) == [fn \in MemoFns |-> <<>>]

lru_cache_fifo(fn, args, out, embeds) ==
  LET c == cache[fn]
      at == {k \in 1..Len(c) : c[k].args = args}
      hit == at # {}
      k == CHOOSE x \in at : TRUE
      entry == [args |-> args, list |-> out.list]
      result == IF hit THEN Returned(c[k].list) ELSE out
  IN  /\ cache' = [cache EXCEPT ![fn] =
           IF hit THEN c
           ELSE IF out.raised THEN c
           ELSE IF Len(c) >= CACHE_SIZE THEN Append(Tail(c), entry)
           ELSE Append(c, entry)]
      /\ served' = [fn |-> fn, args |-> args, raised |-> result.raised,
                    list |-> result.list, hit |-> hit,
                    embeds |-> IF hit THEN 0 ELSE embeds, prev |-> hist,
                    cleared |-> cleaning.cleared]
      /\ hist' = [used |-> [hist.used EXCEPT ![fn] =
                     IF result.raised THEN @
                     ELSE Append(SelectSeq(@, LAMBDA a : a # args), args)],
                  called |-> [hist.called EXCEPT ![fn] = @ \cup {args}],
                  ever |-> [hist.ever EXCEPT ![fn] = @ \cup {args}]]
      /\ ncalls' = ncalls + 1

\* functools.lru_cache around fn: a hit returns the stored list and makes
\* the entry the most recent; a miss computes out (making embeds
\* invocations of the Embedding Service), stores it unless it raised, and
\* drops the least recent entry of a full cache
lru_cache(fn, args, out, embeds) ==
  LET c == cache[fn]
      at == {k \in 1..Len(c) : c[k].args = args}
      hit == at # {}
      k == CHOOSE x \in at : TRUE
      entry == [args |-> args, list |-> out.list]
      result == IF hit THEN Returned(c[k].list) ELSE out
  IN  /\ cache' = [cache EXCEPT ![fn] =
           IF hit THEN SubSeq(c, 1, k - 1) \o SubSeq(c, k + 1, Len(c)) \o <<c[k]>>
           ELSE IF out.raised THEN c
           ELSE IF Len(c) >= CACHE_SIZE THEN Append(Tail(c), entry)
           ELSE Append(c, entry)]
      /\ served' = [fn |-> fn, args |-> args, raised |-> result.raised,
                    list |-> result.list, hit |-> hit,
                    embeds |-> IF hit THEN 0 ELSE embeds, prev |-> hist,
                    cleared |-> cleaning.cleared]
      /\ hist' = [used |-> [hist.used EXCEPT ![fn] =
                     IF result.raised THEN @
                     ELSE Append(SelectSeq(@, LAMBDA a : a # args), args)],
                  called |-> [hist.called EXCEPT ![fn] = @ \cup {args}],
                  ever |-> [hist.ever EXCEPT ![fn] = @ \cup {args}]]
      /\ ncalls' = ncalls + 1

(***************************************************************************)
(* Calls through the caches, over a store at rest that holds one image and  *)
(* one video of two frames.                                                 *)
(***************************************************************************)
ImageTextArgs == {<<"cat", "", 0, 0>>, <<"dog", "", 0, 0>>,
                  <<"cat", "dog", 0, 0>>, <<"", "cat", 0, 0>>}
VideoTextArgs == {<<"cat", "", 0, 0>>}
ImageImageArgs == {<<"1", 50>>, <<"a.jpg", 50>>}
VideoImageArgs == {<<"1", 50>>}

CacheInit ==
  /\ ScannerAtRest
  /\ images = {[id |-> 1, path |-> "a.jpg", modify_time |-> 1, feature |-> 0]}
  /\ frames = VideoRows("v.mp4", 1, <<0, 4>>)
  /\ NoSearchYet

CallImageByText(a) ==
  /\ ncalls < MaxCalls
  /\ lru_cache("search_image_by_text", a,
               search_image_by_text(images, a[1], a[2], a[3], a[4]), TextEmbeds(a))
  /\ UNCHANGED <<scanVars, histVars, searchVars, pairVars, matchVars, tickVars, flightVars, cleaning>>

CallImageByImage(a) ==
  /\ ncalls < MaxCalls
  /\ lru_cache("search_image_by_image", a,
               search_image_by_image(images, a[1], a[2]), 0)
  /\ UNCHANGED <<scanVars, histVars, searchVars, pairVars, matchVars, tickVars, flightVars, cleaning>>

CallImageFile(q) ==
  /\ ncalls < MaxCalls
  /\ lru_cache("search_image_file", <<q>>, search_image_file(images, q), 0)
  /\ UNCHANGED <<scanVars, histVars, searchVars, pairVars, matchVars, tickVars, flightVars, cleaning>>

CallVideoByText(a) ==
  /\ ncalls < MaxCalls
  /\ lru_cache("search_video_by_text", a,
               search_video_by_text(frames, a[1], a[2], a[3], a[4]), TextEmbeds(a))
  /\ UNCHANGED <<scanVars, histVars, searchVars, pairVars, matchVars, tickVars, flightVars, cleaning>>

CallVideoByImage(a) ==
  /\ ncalls < MaxCalls
  /\ lru_cache("search_video_by_image", a,
               search_video_by_image(images, frames, a[1], a[2]), 0)
  /\ UNCHANGED <<scanVars, histVars, searchVars, pairVars, matchVars, tickVars, flightVars, cleaning>>

CallVideoFile(q) ==
  /\ ncalls < MaxCalls
  /\ lru_cache("search_video_file", <<q>>, search_video_file(frames, q), 0)
  /\ UNCHANGED <<scanVars, histVars, searchVars, pairVars, matchVars, tickVars, flightVars, cleaning>>

CleanCache ==
  /\ ncalls < MaxCalls
  /\ cache' = clean_cache(cache)
  /\ hist' = [hist EXCEPT !.used = NoHist.used, !.called = NoHist.called]
  /\ ncalls' = ncalls + 1
  /\ UNCHANGED <<scanVars, histVars, searchVars, pairVars, matchVars, tickVars, flightVars, served, cleaning>>

CacheNext ==
  \/ \E a \in ImageTextArgs : CallImageByText(a)
  \/ \E a \in ImageImageArgs : CallImageByImage(a)
  \/ CallImageFile("a")
  \/ \E a \in VideoTextArgs : CallVideoByText(a)
  \/ \E a \in VideoImageArgs : CallVideoByImage(a)
  \/ CallVideoFile("mp4")
  \/ CleanCache

SpecCache == CacheInit /\ [][CacheNext]_vars

(***************************************************************************)
(* Claims about the caches.                                                 *)
(***************************************************************************)
\* the served call had an identical call before it, and no clean_cache
\* since that call
RepeatedCall == served.fn # "none" /\ served.args \in served.prev.called[served.fn]
\* the served call had an identical call before it, and the first call
\* since the last clean_cache is the served one
CallAfterClean ==
  /\ served.fn # "none"
  /\ served.args \in served.prev.ever[served.fn] \ served.prev.called[served.fn]

OthersSince(fn, args) ==
  LET u == served.prev.used[fn]
      at == {k \in 1..Len(u) : u[k] = args}
  IN  IF at = {} THEN CACHE_SIZE ELSE Len(u) - Max(at)

C11_ZeroAssets ==
  /\ (call.fn \in {"search_image_by_feature", "search_image_by_text"} /\ images = {}) =>
       (~call.raised /\ call.list = <<>>)
  /\ (call.fn = "search_video_by_feature" /\ frames = {}) =>
       (~call.raised /\ call.list = <<>>)

\* the keep rule applied to a stored feature, with the arguments of the call
\* (positive feature, negative feature, thresholds)
KeepRule(feature) ==
  /\ Cosine100(call.args[1][1], feature) >= call.args[3]
  /\ \/ call.args[2] = Absent
     \/ Cosine100(call.args[2][1], feature) <= call.args[4]
\* a search by feature over a non-empty store none of whose candidates
\* passes the thresholds
NoneKept(fn, rows) ==
  /\ call.fn = fn
  /\ call.args[1] # Absent
  /\ rows # {}
  /\ \A r \in rows : ~KeepRule(r.feature)

\* C12: when the store is not empty but no candidate passes the thresholds,
\* search_image_by_feature and search_video_by_feature return an empty list
\* and raise no error, from the softmax step or elsewhere.
C12_EmptyKeptSet ==
  (NoneKept("search_image_by_feature", images) \/ NoneKept("search_video_by_feature", frames))
    => (~call.raised /\ call.list = <<>>)

\* an image search over two stored images, neither of which passes
C12_Witness ==
  /\ NoneKept("search_image_by_feature", images)
  /\ Cardinality(images) = 2
  /\ ~call.raised /\ call.list = <<>>

ByImage == {"search_image_by_image", "search_video_by_image"}
\* the argument of the search by image is a number
IsImageId(x) == x \in DOMAIN IntOf
\* the argument of the search by image refers to no stored asset: an id
\* that no Image row has, or a path that no row has
RefersToNothing(x) ==
  IF IsImageId(x) THEN \A r \in images : r.id # IntOf[x]
  ELSE \A r \in images \cup frames : r.path # x

\* C13: for every image id that is absent from the store (id 0 included)
\* and every path argument that refers to no stored asset,
\* search_image_by_image and search_video_by_image return an empty list and
\* raise no exception.
C13_NotFound ==
  (call.fn \in ByImage /\ RefersToNothing(call.args[1])) =>
    (~call.raised /\ call.list = <<>>)

\* C14: search by image with a stored image id delegates to the search by
\* feature with that image's stored feature, the given threshold as positive
\* threshold and no negative feature; with a file path (not an integer) it
\* completes without raising.
C14_SearchByImage ==
  /\ (call.fn \in ByImage /\ ~IsImageId(call.args[1])) => ~call.raised
  /\ (call.fn \in ByImage /\ IsImageId(call.args[1]) /\ ~RefersToNothing(call.args[1])) =>
       LET feature == (CHOOSE r \in images : r.id = IntOf[call.args[1]]).feature
           out == IF call.fn = "search_image_by_image"
                  THEN search_image_by_feature(images, Some(feature), Absent,
                                               call.args[2], NEGATIVE_THRESHOLD)
                  ELSE search_video_by_feature(frames, Some(feature), Absent,
                                               call.args[2], NEGATIVE_THRESHOLD)
       IN  call.raised = out.raised /\ call.list = out.list

\* a text search with a positive prompt and an empty negative prompt that
\* returned a list
TextSearchNoNegative(fn) ==
  /\ call.fn = fn
  /\ call.args[1] # "" /\ call.args[2] = ""
  /\ ~call.raised
\* pos_score of a stored feature against the positive prompt of the call
TextPosScore(feature) == Cosine100(EmbedText[call.args[1]], feature)

\* C15: a text search with an empty negative prompt passes no negative
\* feature, so that the kept set is exactly the candidates with
\* pos_score >= positive_threshold, whatever negative_threshold is: the
\* images of the result list are exactly those candidates, and every such
\* frame of a video lies in a run of the result list.
C15_NoNegative ==
  /\ TextSearchNoNegative("search_image_by_text") =>
       {call.list[k].url[2] : k \in 1..Len(call.list)}
         = {r.id : r \in {x \in images : TextPosScore(x.feature) >= call.args[3]}}
  /\ TextSearchNoNegative("search_video_by_text") =>
       \A r \in frames :
         (TextPosScore(r.feature) >= call.args[3]) <=>
           \E k \in 1..Len(call.list) :
             /\ call.list[k].path = r.path
             /\ call.list[k].start_time <= r.frame_time
             /\ r.frame_time <= call.list[k].end_time
             /\ call.list[k].score >= TextPosScore(r.feature)

(***************************************************************************)
(* clean_cache running concurrently with searches: its six cache_clear      *)
(* calls are separate steps, between which other request threads run.       *)
(***************************************************************************)
\* the order of the cache_clear calls
ClearOrder == <<"search_image_by_text", "search_image_by_image", "search_image_file",
                "search_video_by_text", "search_video_by_image", "search_video_file">>

\* api_clean_cache enters clean_cache
CleanBegin ==
  /\ ncalls < MaxCalls
  /\ ~cleaning.on
  /\ cleaning' = [on |-> TRUE, cleared |-> {}]
  /\ ncalls' = ncalls + 1
  /\ UNCHANGED <<scanVars, histVars, searchVars, pairVars, matchVars, tickVars, flightVars, cache, hist, served>>

\* the next cache_clear
CleanStep ==
  /\ cleaning.on
  /\ cleaning.cleared # MemoFns
  /\ LET fn == ClearOrder[Cardinality(cleaning.cleared) + 1]
     IN  /\ cache' = [cache EXCEPT ![fn] = <<>>]
         /\ hist' = [hist EXCEPT !.used[fn] = <<>>, !.called[fn] = {}]
         /\ cleaning' = [cleaning EXCEPT !.cleared = @ \cup {fn}]
  /\ UNCHANGED <<scanVars, histVars, searchVars, pairVars, matchVars, tickVars, flightVars, served, ncalls>>

\* clean_cache returns
CleanReturn ==
  /\ cleaning.on
  /\ cleaning.cleared = MemoFns
  /\ cleaning' = NotCleaning
  /\ UNCHANGED <<scanVars, histVars, searchVars, pairVars, matchVars, tickVars, flightVars, cache, hist, served, ncalls>>

CleanNext ==
  \/ \E a \in ImageTextArgs : CallImageByText(a)
  \/ \E a \in ImageImageArgs : CallImageByImage(a)
  \/ CallImageFile("a")
  \/ \E a \in VideoTextArgs : CallVideoByText(a)
  \/ \E a \in VideoImageArgs : CallVideoByImage(a)
  \/ CallVideoFile("mp4")
  \/ CleanBegin
  \/ CleanStep
  \/ CleanReturn

SpecClean == CacheInit /\ [][CleanNext]_vars

\* C16: clean_cache is atomic over the six memoized functions: when it
\* returns every one of the six caches is empty, and no search that runs
\* while clean_cache is running is served an entry of a cache that is not
\* cleared yet after another cache has been cleared.
C16_AtomicClean ==
  /\ (cleaning.on /\ cleaning.cleared = MemoFns) =>
       \A fn \in MemoFns : cache[fn] = <<>>
  /\ served.hit => (served.cleared = {} \/ served.fn \in served.cleared)

\* the last n elements of a sequence (all of them when it is shorter)
LastOf(u, n) == SubSeq(u, Max({1, Len(u) - n + 1}), Len(u))

\* C17: each memoized search function holds at most CACHE_SIZE entries,
\* one per argument tuple; they are the CACHE_SIZE most recently used
\* argument tuples since the last clean_cache, least recently used first (a
\* full cache loses its least recently used entry, a hit makes its entry the
\* most recent), and each entry holds the list computed for its arguments.
C17_BoundedLRU ==
  \A fn \in MemoFns :
    /\ Len(cache[fn]) <= CACHE_SIZE
    /\ [k \in 1..Len(cache[fn]) |-> cache[fn][k].args] = LastOf(hist.used[fn], CACHE_SIZE)
    /\ fn = "search_image_by_text" =>
         \A k \in 1..Len(cache[fn]) :
           LET a == cache[fn][k].args
           IN  cache[fn][k].list = search_image_by_text(images, a[1], a[2], a[3], a[4]).list

\* a full cache has lost its least recently used entry to a new one
C17_Witness ==
  /\ served.fn = "search_image_by_text" /\ ~served.hit
  /\ Len(hist.used["search_image_by_text"]) > CACHE_SIZE
  /\ Len(cache["search_image_by_text"]) = CACHE_SIZE
  /\ cache["search_image_by_text"][CACHE_SIZE].args = served.args

(***************************************************************************)
(* The match request of the two front-ends, requests handled one after the  *)
(* other.  An exception out of a handler is answered with status 500.       *)
(***************************************************************************)
SearchTypes == 0..9
\* session upload_file_path of the Flask front-end: '' when nothing was uploaded
UploadPaths == {"", "upload.jpg"}

\* the answer after a search through a cache
Answered(frontend, search_type) ==
  response' = [frontend |-> frontend, search_type |-> search_type,
               status |-> IF served'.raised THEN 500 ELSE 200,
               same |-> cache' = cache, unknown |-> response.unknown]
\* the answer of a request that runs no memoized search; unknown keeps the
\* status each front-end gave to its last request of an unknown search type
Aborted(frontend, search_type, status) ==
  /\ response' = [frontend |-> frontend, search_type |-> search_type,
                  status |-> status, same |-> TRUE,
                  unknown |-> IF search_type \in 0..8 THEN response.unknown
                              ELSE [response.unknown EXCEPT ![frontend] = status]]
  /\ ncalls' = ncalls + 1
  /\ UNCHANGED <<cache, hist, served>>

\* the searches of the kinds 0..3 and 5..8, the same in both handlers
MatchSearch(search_type, upload_file_path) ==
  \/ /\ search_type = 0
     /\ \E a \in ImageTextArgs :
          lru_cache("search_image_by_text", a,
                    search_image_by_text(images, a[1], a[2], a[3], a[4]), TextEmbeds(a))
  \/ /\ search_type = 1
     /\ lru_cache("search_image_by_image", <<upload_file_path, 50>>,
                  search_image_by_image(images, upload_file_path, 50), 0)
  \/ /\ search_type = 2
     /\ \E a \in VideoTextArgs :
          lru_cache("search_video_by_text", a,
                    search_video_by_text(frames, a[1], a[2], a[3], a[4]), TextEmbeds(a))
  \/ /\ search_type = 3
     /\ lru_cache("search_video_by_image", <<upload_file_path, 50>>,
                  search_video_by_image(images, frames, upload_file_path, 50), 0)
  \/ /\ search_type = 5
     /\ lru_cache("search_image_by_image", <<"1", 50>>,
                  search_image_by_image(images, "1", 50), 0)
  \/ /\ search_type = 6
     /\ lru_cache("search_video_by_image", <<"1", 50>>,
                  search_video_by_image(images, frames, "1", 50), 0)
  \/ /\ search_type = 7
     /\ lru_cache("search_image_file", <<"a">>, search_image_file(images, "a"), 0)
  \/ /\ search_type = 8
     /\ lru_cache("search_video_file", <<"mp4">>, search_video_file(frames, "mp4"), 0)

ApiMatchFlask(search_type, upload_file_path) ==
  /\ ncalls < MaxCalls
  /\ \/ /\ search_type \in {1, 3, 4} /\ upload_file_path = ""
        /\ Aborted("flask", search_type, 400)
     \/ /\ search_type \in {0, 2, 5, 6, 7, 8} \/ upload_file_path # ""
        /\ MatchSearch(search_type, upload_file_path)
        /\ Answered("flask", search_type)
     \/ /\ search_type = 4 /\ upload_file_path # ""
        /\ Aborted("flask", search_type, 200)
     \/ /\ search_type \notin 0..8
        /\ Aborted("flask", search_type, 500)
  /\ UNCHANGED <<scanVars, histVars, searchVars, pairVars, tickVars, flightVars, cleaning>>

\* the request models accept the search types 0..8 only: any other is
\* answered 422 by the validation, before the handler runs
ApiMatchFastapi(search_type) ==
  /\ ncalls < MaxCalls
  /\ \/ /\ search_type \notin 0..8
        /\ Aborted("fastapi", search_type, 422)
     \/ /\ MatchSearch(search_type, "upload.jpg")
        /\ Answered("fastapi", search_type)
     \/ /\ search_type = 4
        /\ Aborted("fastapi", search_type, 200)
  /\ UNCHANGED <<scanVars, histVars, searchVars, pairVars, tickVars, flightVars, cleaning>>

MatchNext ==
  \/ \E t \in SearchTypes, u \in UploadPaths : ApiMatchFlask(t, u)
  \/ \E t \in SearchTypes : ApiMatchFastapi(t)
  \/ CleanCache

SpecMatch == CacheInit /\ [][MatchNext]_vars

\* C18: a match request whose search kind is not one of 0..8 is answered
\* with an error status that classifies it as a malformed request (a 4xx
\* status), it runs no search and leaves the caches and the store as they
\* were, and the two front-ends give the same answer.
C18_UnknownKind ==
  /\ (response.frontend # "none" /\ response.search_type \notin 0..8) =>
       (response.status \in 400..499 /\ response.same)
  /\ (response.unknown["flask"] # 0 /\ response.unknown["fastapi"] # 0) =>
       response.unknown["flask"] = response.unknown["fastapi"]

(***************************************************************************)
(* Searches beside a running pass.  The scanner thread and a request each   *)
(* open their own session; the search reads the store statement by          *)
(* statement, every statement seeing what the scanner has committed so far. *)
(***************************************************************************)
LiveFeatures == {Some(0), Some(6)}

\* a pass has been launched over a store left by earlier passes
LiveInit ==
  /\ fs \in [Paths -> {0} \cup Mtimes]
  /\ bad = {}
  /\ fsEvents = 0
  /\ \E f0 \in [Paths -> {0, 1}] :
       /\ images = StoreOf(f0).images
       /\ frames = StoreOf(f0).frames
  /\ is_scanning = FALSE
  /\ passes = LaunchPass([s \in Slots |-> IdlePass])
  /\ reply = NoReply
  /\ audit = NoAudit
  /\ last = NoAudit
  /\ NoSearchYet

\* search_image_by_feature: one statement reads all Image rows
LiveSearchImage(positive_feature, positive_threshold) ==
  LET out == search_image_by_feature(images, positive_feature, Absent,
                                     positive_threshold, NEGATIVE_THRESHOLD)
  IN
  /\ query.pc = "none"
  /\ query' = [NoQuery EXCEPT !.pc = "done", !.fn = "search_image_by_feature",
                              !.feature = positive_feature,
                              !.threshold = positive_threshold,
                              !.emptied = (images = {}),
                              !.raised = out.raised, !.list = out.list]
  /\ UNCHANGED <<scanVars, histVars, pairVars, matchVars, tickVars, flightVars, cacheVars, call>>

\* search_video_by_feature, "for path in crud.get_video_paths(session)": the
\* statement that lists the distinct video paths
LiveVideoPaths(positive_feature, positive_threshold) ==
  /\ query.pc = "none"
  /\ query' = [NoQuery EXCEPT !.pc = "paths", !.fn = "search_video_by_feature",
                              !.feature = positive_feature,
                              !.threshold = positive_threshold,
                              !.todo = get_video_paths(frames)]
  /\ UNCHANGED <<scanVars, histVars, pairVars, matchVars, tickVars, flightVars, cacheVars, call>>

\* the body of the loop for the next listed path: the statement that reads
\* the frames of that video, the reshape, the scores and the runs
LiveVideoFrames ==
  LET path == Head(query.todo)
      runs == VideoRuns(frames, path, query.feature, Absent,
                        query.threshold, NEGATIVE_THRESHOLD)
  IN
  /\ query.pc = "paths"
  /\ query.todo # <<>>
  /\ query' = IF runs.raised
              THEN [query EXCEPT !.pc = "done", !.raised = TRUE,
                                 !.emptied = (FramesAt(frames, path) = {})]
              ELSE [query EXCEPT !.todo = Tail(@),
                                 !.data_list = @ \o runs.list]
  /\ UNCHANGED <<scanVars, histVars, pairVars, matchVars, tickVars, flightVars, cacheVars, call>>

\* after the loop: softmax, the return list, the sort
LiveVideoReturn ==
  /\ query.pc = "paths"
  /\ query.todo = <<>>
  /\ query' = [query EXCEPT !.pc = "done",
                            !.list = VideoReturnList(query.data_list)]
  /\ UNCHANGED <<scanVars, histVars, pairVars, matchVars, tickVars, flightVars, cacheVars, call>>

LiveNext ==
  \/ ScanBegin(1) /\ UNCHANGED <<histVars, searchVars, pairVars, matchVars, tickVars, flightVars, cacheVars>>
  \/ \E p \in Paths : ScanCheck(1, p) /\ UNCHANGED <<histVars, searchVars, pairVars, matchVars, tickVars, flightVars, cacheVars>>
  \/ ScanEmbed(1) /\ UNCHANGED <<histVars, searchVars, pairVars, matchVars, tickVars, flightVars, cacheVars>>
  \/ ScanReconcile(1) /\ UNCHANGED <<histVars, searchVars, pairVars, matchVars, tickVars, flightVars, cacheVars>>
  \/ ScanFinish(1) /\ UNCHANGED <<histVars, searchVars, pairVars, matchVars, tickVars, flightVars, cacheVars>>
  \/ \E pf \in LiveFeatures, pt \in Thresholds : LiveSearchImage(pf, pt)
  \/ \E pf \in LiveFeatures, pt \in Thresholds : LiveVideoPaths(pf, pt)
  \/ LiveVideoFrames
  \/ LiveVideoReturn

SpecLive == LiveInit /\ [][LiveNext]_vars

\* C19: under every interleaving of a search (image or video) with the
\* scanner's per-file delete, insert and reconcile steps, the search
\* completes with a result list and never fails, also when all frames of a
\* video are deleted between the listing of the video paths and the reading
\* of that video's frames.
C19_SearchBesideScan ==
  query.pc = "done" => ~query.raised

\* the video half alone: a video search that listed a path never fails
C19_VideoBesideScan ==
  (query.pc = "done" /\ query.fn = "search_video_by_feature") => ~query.raised

(***************************************************************************)
(* The auto-scan task.                                                      *)
(***************************************************************************)
\* the window as stated for a start later than the end: it wraps past midnight
InsideWindow(t) ==
  IF autoScanStartTime_ > autoScanEndTime_
  THEN t >= autoScanStartTime_ \/ t <= autoScanEndTime_
  ELSE t >= autoScanStartTime_ /\ t <= autoScanEndTime_

\* C20: at each check the auto-scan task triggers a full pass if and only if
\* the time of day lies within the configured window (wrapping past midnight
\* when the start is later than the end) and no scan is active; outside the
\* window, or while a scan is active, the check triggers nothing.
C20_AutoScan ==
  tick.ticked => (tick.triggered <=> (InsideWindow(tick.at) /\ ~tick.active))

\* the same with "a scan is active" read as the is_scanning flag
C20_AutoScanByFlag ==
  tick.ticked => (tick.triggered <=> (InsideWindow(tick.at) /\ ~tick.was_scanning))

(***************************************************************************)
(* Termination of a pass.  The thread of a launched pass keeps running      *)
(* until the pass returns, so its steps are weakly fair.                    *)
(***************************************************************************)
PassStep ==
  \/ SeqBegin /\ UNCHANGED <<searchVars, pairVars, matchVars, tickVars, flightVars, cacheVars>>
  \/ \E p \in Paths : SeqCheck(p) /\ UNCHANGED <<searchVars, pairVars, matchVars, tickVars, flightVars, cacheVars>>
  \/ SeqEmbed /\ UNCHANGED <<searchVars, pairVars, matchVars, tickVars, flightVars, cacheVars>>
  \/ SeqReconcile /\ UNCHANGED <<searchVars, pairVars, matchVars, tickVars, flightVars, cacheVars>>
  \/ SeqFinish /\ UNCHANGED <<searchVars, pairVars, matchVars, tickVars, flightVars, cacheVars>>

SpecSeqFair == SeqInit /\ [][SeqNext]_vars /\ WF_vars(PassStep)

\* the files of the candidate set the last finished pass could decode, and
\* the candidates it had to skip
Decodable(p) == fs[p] > 0 /\ p \notin bad
Skipped == {p \in last.assets : ~Decodable(p)}

KeptExpSum(rows) ==
  SumSeq([i \in 1..Len(rows) |->
            IF KeepRule(rows[i].feature)
            THEN Exp(Cosine100(call.args[1][1], rows[i].feature)) ELSE 0])
\* the per-frame flags of the keep rule for one video
KeepFlags(path) ==
  LET rows == FrameRows(FramesAt(frames, path))
  IN  [i \in 1..Len(rows) |-> IF KeepRule(rows[i].feature) THEN Some(1) ELSE Absent]
\* the number of runs over all videos of the store
NumRuns ==
  SumSeq([k \in 1..Len(get_video_paths(frames)) |->
            Len(get_index_pairs(KeepFlags(get_video_paths(frames)[k])))])
\* the softmax input seen through the result: every item's softmax_score has
\* the sum of the exponentials of the input as its denominator
DenominatorsAre(d) == \A k \in 1..Len(call.list) : call.list[k].softmax_score[2] = d

\* C22: a dropped candidate never contributes to the softmax input: in
\* search_image_by_feature the list given to softmax holds exactly the scores
\* of the kept images; in search_video_by_feature it holds exactly one score
\* per reconstructed run, each the score of a kept frame.
C22_SoftmaxInput ==
  /\ (call.fn = "search_image_by_feature" /\ call.args[1] # Absent /\ images # {}) =>
       /\ ~call.raised
       /\ Len(call.list) = Cardinality({r \in images : KeepRule(r.feature)})
       /\ DenominatorsAre(KeptExpSum(ImageRows(images)))
  /\ (call.fn = "search_video_by_feature" /\ call.args[1] # Absent) =>
       /\ ~call.raised
       /\ Len(call.list) = NumRuns
       /\ DenominatorsAre(SumSeq([k \in 1..Len(call.list) |-> Exp(call.list[k].score)]))
       /\ \A k \in 1..Len(call.list) :
            \E r \in FramesAt(frames, call.list[k].path) :
              /\ KeepRule(r.feature)
              /\ Cosine100(call.args[1][1], r.feature) = call.list[k].score

\* the scores of the matched member frames of the run reported by item k:
\* the kept frames of the video whose time lies in the run's window
MemberScores(k) ==
  {Cosine100(call.args[1][1], r.feature) :
     r \in {x \in FramesAt(frames, call.list[k].path) :
              /\ call.list[k].start_time <= x.frame_time
              /\ x.frame_time <= call.list[k].end_time
              /\ KeepRule(x.feature)}}
RunScoresAreMax ==
  \A k \in 1..Len(call.list) :
    /\ MemberScores(k) # {}
    /\ call.list[k].score = Max(MemberScores(k))

\* C23: video search returns every run with the maximum of the scores of its
\* matched member frames as raw score, for all scores and thresholds
\* (negative kept scores included) and also for a run that bridges an
\* unmatched frame, which never determines the outcome.
C23_RunScore ==
  (call.fn = "search_video_by_feature" /\ call.args[1] # Absent) =>
    (~call.raised /\ RunScoresAreMax)

(***************************************************************************)
(* get_video_range applied to the frames of one video.                      *)
(***************************************************************************)
\* the strictly increasing lists of at most n frame times
RECURSIVE TimeLists(_)
TimeLists(n) ==
  IF n = 0 THEN {<<>>}
  ELSE TimeLists(n - 1) \cup
       UNION {{Append(x, t) : t \in {u \in 0..MaxFrameTime : Len(x) = 0 \/ u > x[Len(x)]}} :
              x \in {y \in TimeLists(n - 1) : Len(y) = n - 1}}
IncreasingTimes == TimeLists(MaxRangeFrames)

RangeInit ==
  /\ ScannerAtRest
  /\ images = {}
  /\ frames = {}
  /\ call = NoCall
  /\ query = NoQuery
  /\ tick = NoTick
  /\ inflight = NoFlight
  /\ range_times \in IncreasingTimes
  /\ scores \in {x \in FlagLists(MaxRangeFrames) : Len(x) = Len(range_times)}
  /\ index_pairs = <<>>
  /\ ranges = <<>>
  /\ CachesEmpty

\* the run and its window as get_video_range gives it
RangeOf(start_index, end_index) ==
  LET r == get_video_range(start_index, end_index, scores, range_times)
  IN  [start_index |-> start_index, end_index |-> end_index,
       start_time |-> r[1], end_time |-> r[2]]

\* the loop of search_video_by_feature over the runs of one video
GetVideoRanges ==
  /\ index_pairs = <<>>
  /\ ranges = <<>>
  /\ index_pairs' = <<get_index_pairs(scores)>>
  /\ ranges' = [k \in 1..Len(index_pairs'[1]) |->
                  RangeOf(index_pairs'[1][k][1], index_pairs'[1][k][2])]
  /\ UNCHANGED <<scanVars, histVars, searchVars, scores, range_times, cacheVars, matchVars, tickVars, flightVars>>

\* get_video_range applied to one pair of frame indices
GetVideoRange(start_index, end_index) ==
  /\ index_pairs = <<>>
  /\ ranges = <<>>
  /\ start_index <= end_index
  /\ end_index < Len(range_times)
  /\ ranges' = <<RangeOf(start_index, end_index)>>
  /\ UNCHANGED <<scanVars, histVars, searchVars, scores, range_times, index_pairs, cacheVars, matchVars, tickVars, flightVars>>

RangeNext ==
  \/ GetVideoRanges
  \/ \E s, e \in 0..(MaxRangeFrames - 1) : GetVideoRange(s, e)

SpecRange == RangeInit /\ [][RangeNext]_vars

\* m is the midpoint of a and b rounded down / rounded up
MidpointDown(m, a, b) == 2 * m <= a + b /\ a + b < 2 * m + 2
MidpointUp(m, a, b) == 2 * m - 2 < a + b /\ a + b <= 2 * m

\* C24: the window of a run (start_index, end_index) over integer frame
\* times: start_time is the midpoint of the times of the frame before the
\* run and of its first frame, rounded down, or the first frame's time when
\* the run starts at frame 0; end_time is the midpoint of the times of its
\* last frame and of the following frame, rounded up, or the last frame's
\* time when no frame follows.
C24_TimeWindow ==
  \A k \in 1..Len(ranges) :
    LET r == ranges[k]
        t == range_times
    IN  /\ IF r.start_index > 0
           THEN MidpointDown(r.start_time, t[r.start_index], t[r.start_index + 1])
           ELSE r.start_time = t[r.start_index + 1]
        /\ IF r.end_index + 1 < Len(t)
           THEN MidpointUp(r.end_time, t[r.end_index + 1], t[r.end_index + 2])
           ELSE r.end_time = t[r.end_index + 1]
\* a run inside the video whose two midpoints both need rounding
C24_Witness ==
  /\ Len(ranges) = 1
  /\ ranges[1].start_index > 0
  /\ ranges[1].end_index + 1 < Len(range_times)
  /\ (range_times[ranges[1].start_index] + range_times[ranges[1].start_index + 1]) % 2 = 1
  /\ (range_times[ranges[1].end_index + 1] + range_times[ranges[1].end_index + 2]) % 2 = 1
  /\ ranges[1].start_time < ranges[1].end_time

\* C29: for one video with strictly increasing integer frame times and any
\* match flags, the windows of the runs of get_index_pairs are well-formed
\* and pairwise disjoint: start_time <= end_time, the window contains the
\* times of the run's first and last matched frame, and of two consecutive
\* runs the first ends before the second starts.
C29_DisjointWindows ==
  index_pairs # <<>> =>
    /\ \A k \in 1..Len(ranges) :
         /\ ranges[k].start_time <= ranges[k].end_time
         /\ ranges[k].start_time <= range_times[ranges[k].start_index + 1]
         /\ range_times[ranges[k].start_index + 1] <= range_times[ranges[k].end_index + 1]
         /\ range_times[ranges[k].end_index + 1] <= ranges[k].end_time
    /\ \A k \in 1..(Len(ranges) - 1) : ranges[k].end_time < ranges[k + 1].start_time
\* two runs, the first of which bridges an unmatched frame
C29_Witness ==
  /\ index_pairs # <<>>
  /\ Len(ranges) = 2
  /\ ranges[1].end_index = ranges[1].start_index + 2
  /\ ~Truthy(scores[ranges[1].start_index + 2])
  /\ ranges[1].end_time < ranges[2].start_time

\* C25: the list returned by search_image_by_feature and by
\* search_video_by_feature is sorted by raw score, highest first, and every
\* item carries the softmax_score computed for its own raw score: the
\* exponential of its score over the sum of the exponentials of all scores.
C25_Ordering ==
  (call.fn \in ByFeature /\ ~call.raised) =>
    /\ \A k \in 1..(Len(call.list) - 1) : call.list[k].score >= call.list[k + 1].score
    /\ \A k \in 1..Len(call.list) :
         /\ call.list[k].softmax_score[1] = Exp(call.list[k].score)
         /\ call.list[k].softmax_score[2] =
              SumSeq([j \in 1..Len(call.list) |-> Exp(call.list[j].score)])
\* a result whose order differs from the order of the store: the image
\* stored second has the higher score and comes first
C25_Witness ==
  /\ call.fn = "search_image_by_feature" /\ ~call.raised
  /\ Len(call.list) = 2
  /\ call.list[1].url = <<"api/get_image", 2>>
  /\ call.list[1].score > call.list[2].score
  /\ call.list[1].softmax_score[1] > call.list[2].softmax_score[1]

(***************************************************************************)
(* Searches through the caches before and after a pass that changes the     *)
(* store.                                                                   *)
(***************************************************************************)
\* the caches after a pass that cleared them on completion
after_scan_cleared(c) == clean_cache(c)
\* the caches after a completed pass: the pass does not touch them, clearing
\* them is left to the scanner's caller
after_scan(c) == c

\* the text searches made before and after the pass
StaleArgs == {<<"cat", "", 0, 0>>, <<"dog", "", 0, 0>>, <<"cat", "dog", 0, 0>>}

\* the store of CacheInit, as left by a pass over the files at modify time 1
StaleInit ==
  /\ fs = [p \in Paths |-> 1]
  /\ bad = {}
  /\ fsEvents = 0
  /\ is_scanning = FALSE
  /\ passes = [s \in Slots |-> IdlePass]
  /\ reply = NoReply
  /\ audit = NoAudit
  /\ last = NoAudit
  /\ images = {[id |-> 1, path |-> "a.jpg", modify_time |-> 1, feature |-> 0]}
  /\ frames = VideoRows("v.mp4", 1, <<0, 4>>)
  /\ NoSearchYet

\* the files change before the pass is requested
StaleWrite(p, t) ==
  /\ reply = NoReply
  /\ FsWrite(p, t, TRUE)
  /\ UNCHANGED <<histVars, searchVars, pairVars, matchVars, tickVars, flightVars, cacheVars>>
StaleRemove(p) ==
  /\ reply = NoReply
  /\ FsRemove(p)
  /\ UNCHANGED <<histVars, searchVars, pairVars, matchVars, tickVars, flightVars, cacheVars>>
\* one pass is requested
StaleLaunch ==
  /\ reply = NoReply
  /\ ApiScanFlask
  /\ UNCHANGED <<histVars, searchVars, pairVars, matchVars, tickVars, flightVars, cacheVars>>
StaleBegin ==
  /\ ScanBegin(1)
  /\ UNCHANGED <<histVars, searchVars, pairVars, matchVars, tickVars, flightVars, cacheVars>>
StaleCheck(p) ==
  /\ ScanCheck(1, p)
  /\ UNCHANGED <<histVars, searchVars, pairVars, matchVars, tickVars, flightVars, cacheVars>>
StaleEmbed ==
  /\ ScanEmbed(1)
  /\ UNCHANGED <<histVars, searchVars, pairVars, matchVars, tickVars, flightVars, cacheVars>>
StaleReconcile ==
  /\ ScanReconcile(1)
  /\ UNCHANGED <<histVars, searchVars, pairVars, matchVars, tickVars, flightVars, cacheVars>>
StaleFinish ==
  /\ ScanFinish(1)
  /\ cache' = after_scan(cache)
  /\ UNCHANGED <<histVars, searchVars, pairVars, matchVars, tickVars, flightVars,
                 hist, served, ncalls, cleaning>>

StaleNext ==
  \/ \E p \in Paths, t \in Mtimes : StaleWrite(p, t)
  \/ \E p \in Paths : StaleRemove(p)
  \/ StaleLaunch
  \/ StaleBegin
  \/ \E p \in Paths : StaleCheck(p)
  \/ StaleEmbed
  \/ StaleReconcile
  \/ StaleFinish
  \/ \E a \in StaleArgs : CallImageByText(a)
  \/ CleanCache

SpecStale == StaleInit /\ [][StaleNext]_vars

\* the step is a call of a memoized function
CallStep == ncalls' = ncalls + 1 /\ served' # served
\* the step is a step of the scanner or a change of the files
ScanStep == <<fs, images, frames, passes, is_scanning>>' # <<fs, images, frames, passes, is_scanning>>
\* the entries of a cache
EntriesOf(c, fn) == {c[fn][k] : k \in 1..Len(c[fn])}

C28_NoStaleFrames ==
  /\ [](\A p \in VideoPaths : \A r, q \in FramesAt(frames, p) : r.modify_time = q.modify_time)
  /\ [][\A p \in VideoPaths :
          (FramesAt(frames', p) \ FramesAt(frames, p) # {}) => FramesAt(frames, p) = {}]_vars
  /\ []((last.done /\ last.clean /\ PassQuiet) =>
          \A p \in VideoPaths :
            /\ FramesAt(frames, p) # {} => p \in last.assets
            /\ \A r \in FramesAt(frames, p) : r.modify_time = fs[p]
            /\ last.ins[p] > 0 =>
                 FramesAt(frames, p) = VideoRows(p, fs[p], VideoFrameFeatures(p, fs[p]))
            /\ (p \in bad /\ \A r \in FramesAt(last.pre.frames, p) : r.modify_time # fs[p])
                 => FramesAt(frames, p) = {})
\* a pass has replaced the frames of a changed video, and another pass has
\* left a changed video that cannot be sampled without frames
C28_Witness ==
  \E p \in VideoPaths :
    /\ last.done /\ last.clean /\ PassQuiet
    /\ last.del[p] > 0
    /\ \/ /\ last.ins[p] > 0
          /\ FramesAt(frames, p) = VideoRows(p, 2, VideoFrameFeatures(p, 2))
       \/ /\ p \in bad /\ fs[p] > 0
          /\ FramesAt(frames, p) = {}

(***************************************************************************)
(* A memoized search in flight beside clean_cache.  The lru_cache wrapper   *)
(* looks the arguments up, and on a miss runs the decorated function with   *)
(* the cache unlocked and stores the result when the function returns;      *)
(* between the lookup and the store other request threads run, clean_cache  *)
(* among them.                                                              *)
(***************************************************************************)
FlightFns == {"search_image_by_text", "search_video_by_text"}
FlightArgs(fn) == IF fn = "search_image_by_text" THEN ImageTextArgs ELSE VideoTextArgs

\* the decorated function applied to the store
TextSearchOut(fn, a) ==
  IF fn = "search_image_by_text"
  THEN search_image_by_text(images, a[1], a[2], a[3], a[4])
  ELSE search_video_by_text(frames, a[1], a[2], a[3], a[4])

InCache(c, fn, a) == \E k \in 1..Len(c[fn]) : c[fn][k].args = a

\* a call that finds its arguments in the cache is served the stored list
FlightHit(fn, a) ==
  /\ ncalls < MaxCalls
  /\ InCache(cache, fn, a)
  /\ lru_cache(fn, a, TextSearchOut(fn, a), 0)
  /\ inflight' = [inflight EXCEPT !.served_stale = (<<fn, a>> \in inflight.stale)]
  /\ UNCHANGED <<scanVars, histVars, searchVars, pairVars, matchVars, tickVars, cleaning>>

\* a call that misses: the decorated function runs on the store as it is
FlightBegin(fn, a) ==
  /\ ncalls < MaxCalls
  /\ inflight.pc = "none"
  /\ ~InCache(cache, fn, a)
  /\ LET out == TextSearchOut(fn, a)
     IN  inflight' = [inflight EXCEPT !.pc = "computing", !.fn = fn, !.args = a,
                                      !.raised = out.raised, !.list = out.list,
                                      !.cleaned = FALSE]
  /\ UNCHANGED <<scanVars, histVars, searchVars, pairVars, matchVars, tickVars, cacheVars>>

\* the decorated function returns: the wrapper stores what it computed
FlightEnd ==
  /\ inflight.pc = "computing"
  /\ lru_cache(inflight.fn, inflight.args,
               [raised |-> inflight.raised, list |-> inflight.list],
               TextEmbeds(inflight.args))
  /\ inflight' = [inflight EXCEPT
       !.pc = "none",
       !.stale = {e \in @ \cup (IF inflight.cleaned THEN {<<inflight.fn, inflight.args>>} ELSE {}) :
                    InCache(cache', e[1], e[2])}]
  /\ UNCHANGED <<scanVars, histVars, searchVars, pairVars, matchVars, tickVars, cleaning>>

\* clean_cache, called and returned while a search may be in flight
FlightClean ==
  /\ ncalls < MaxCalls
  /\ cache' = clean_cache(cache)
  /\ hist' = [hist EXCEPT !.used = NoHist.used, !.called = NoHist.called]
  /\ ncalls' = ncalls + 1
  /\ inflight' = [inflight EXCEPT !.cleaned = (inflight.pc = "computing"), !.stale = {}]
  /\ UNCHANGED <<scanVars, histVars, searchVars, pairVars, matchVars, tickVars, served, cleaning>>

FlightNext ==
  \/ \E fn \in FlightFns : \E a \in FlightArgs(fn) : FlightHit(fn, a)
  \/ \E fn \in FlightFns : \E a \in FlightArgs(fn) : FlightBegin(fn, a)
  \/ FlightEnd
  \/ FlightClean

SpecFlight == CacheInit /\ [][FlightNext]_vars

\* C30: after clean_cache has returned, no later call of a memoized search
\* is served a result whose computation began before that clean_cache was
\* called: a search in flight while clean_cache runs does not put the result
\* it computed before the clearing back into the cache.
C30_NoPreClearResult ==
  /\ inflight.stale = {}
  /\ ~inflight.served_stale
\* a later call has been served from the cache the list that a search begun
\* before clean_cache stored after it
C30_ServedPreClear ==
  /\ inflight.served_stale
  /\ served.hit
  /\ <<served.fn, served.args>> \in inflight.stale
====
